---- MODULE Spec2Model ----
(***************************************************************************)
(* Model of the adaptive field extraction and self-correction engine:      *)
(* the field validator, the contextual heuristics, the probabilistic       *)
(* correction model with its retrainer, the field assembler (extract_data  *)
(* and extract_data_v2), the template selection and the flexible zone      *)
(* locator.                                                                *)
(*                                                                         *)
(* Texts are sequences of one-character strings, so that stripping,        *)
(* cleaning, pattern matching and number parsing are computed character by *)
(* character as the Python code computes them.                             *)
(***************************************************************************)
EXTENDS Integers, Sequences, FiniteSets, TLC

(***************************************************************************)
(* Characters and elementary string operations                             *)
(***************************************************************************)
Digits == {"0", "1", "2", "3", "4", "5", "6", "7", "8", "9"}

UpperLetters == {"A", "B", "C", "D", "E", "F", "G", "H", "I", "J", "K", "L", "M",
                 "N", "O", "P", "Q", "R", "S", "T", "U", "V", "W", "X", "Y", "Z"}

LowerLetters == {"a", "b", "c", "d", "e", "f", "g", "h", "i", "j", "k", "l", "m",
                 "n", "o", "p", "q", "r", "s", "t", "u", "v", "w", "x", "y", "z"}

LowerOf == [c \in UpperLetters |->
              CASE c = "A" -> "a" [] c = "B" -> "b" [] c = "C" -> "c" [] c = "D" -> "d"
                [] c = "E" -> "e" [] c = "F" -> "f" [] c = "G" -> "g" [] c = "H" -> "h"
                [] c = "I" -> "i" [] c = "J" -> "j" [] c = "K" -> "k" [] c = "L" -> "l"
                [] c = "M" -> "m" [] c = "N" -> "n" [] c = "O" -> "o" [] c = "P" -> "p"
                [] c = "Q" -> "q" [] c = "R" -> "r" [] c = "S" -> "s" [] c = "T" -> "t"
                [] c = "U" -> "u" [] c = "V" -> "v" [] c = "W" -> "w" [] c = "X" -> "x"
                [] c = "Y" -> "y" [] c = "Z" -> "z"]

DigitVal == [c \in Digits |->
              CASE c = "0" -> 0 [] c = "1" -> 1 [] c = "2" -> 2 [] c = "3" -> 3
                [] c = "4" -> 4 [] c = "5" -> 5 [] c = "6" -> 6 [] c = "7" -> 7
                [] c = "8" -> 8 [] c = "9" -> 9]

IsDigit(c) == c \in Digits

IsSpace(c) == c \in {" ", "\t", "\n", "\r"}

\* \w of the re module on the characters of the model: letters, digits, underscore
IsWordChar(c) == c \in Digits \cup UpperLetters \cup LowerLetters \cup {"_"}

IsAlnum(c) == c \in Digits \cup UpperLetters \cup LowerLetters

IsAmountChar(c) == c \in Digits \cup {",", "."}

IsComma(c) == c = ","

IsDot(c) == c = "."

NotDot(c) == c # "."

NotComma(c) == c # ","

AllChars(s, P(_)) == \A i \in 1..Len(s) : P(s[i])

CountChars(s, P(_)) == Len(SelectSeq(s, P))

\* str.lower()
Lower(s) == [i \in 1..Len(s) |-> IF s[i] \in UpperLetters THEN LowerOf[s[i]] ELSE s[i]]

\* str.strip(): drop the whitespace at both ends
RECURSIVE LStrip(_)
LStrip(s) == IF s # <<>> /\ IsSpace(Head(s)) THEN LStrip(Tail(s)) ELSE s

RECURSIVE RStrip(_)
RStrip(s) == IF s # <<>> /\ IsSpace(s[Len(s)]) THEN RStrip(SubSeq(s, 1, Len(s) - 1)) ELSE s

Strip(s) == RStrip(LStrip(s))

\* truth value of a Python string
Truthy(s) == s # <<>>

\* str.rfind(c): the last position of c (1-based), 0 when c does not occur
RFind(s, c) == IF \E i \in 1..Len(s) : s[i] = c
               THEN CHOOSE i \in 1..Len(s) : s[i] = c /\ \A j \in (i + 1)..Len(s) : s[j] # c
               ELSE 0

\* str.replace(a, b) for one-character a and b
ReplaceChar(s, a, b) == [i \in 1..Len(s) |-> IF s[i] = a THEN b ELSE s[i]]

\* "sub in s"
Contains(s, sub) == \E i \in 0..(Len(s) - Len(sub)) : SubSeq(s, i + 1, i + Len(sub)) = sub

\* str.split(): the whitespace-separated words, in order
RECURSIVE SplitWords(_)
SplitWords(s) ==
    LET t == LStrip(s)
    IN  IF t = <<>> THEN <<>>
        ELSE LET n == IF \E i \in 1..Len(t) : IsSpace(t[i])
                      THEN (CHOOSE i \in 1..Len(t) :
                               IsSpace(t[i]) /\ \A j \in 1..(i - 1) : ~IsSpace(t[j])) - 1
                      ELSE Len(t)
             IN  <<SubSeq(t, 1, n)>> \o SplitWords(SubSeq(t, n + 1, Len(t)))

(***************************************************************************)
(* Field validator (DataExtractor.validate_field_value and                 *)
(* DataExtractorV2.validate_field_value)                                   *)
(***************************************************************************)

\* float(s) succeeds on a string made of digits, ',' and '.' exactly when it has
\* no ',', at most one '.' and at least one digit
IsFloatLiteral(s) ==
    /\ AllChars(s, IsAmountChar)
    /\ CountChars(s, IsComma) = 0
    /\ CountChars(s, IsDot) <= 1
    /\ CountChars(s, IsDigit) >= 1

\* the string handed to float() by the amount branch
AmountStr(cleaned) ==
    IF CountChars(cleaned, IsComma) > 0 /\ CountChars(cleaned, IsDot) > 0
    THEN IF RFind(cleaned, ",") > RFind(cleaned, ".")
         THEN ReplaceChar(SelectSeq(cleaned, NotDot), ",", ".")
         ELSE SelectSeq(cleaned, NotComma)
    ELSE IF CountChars(cleaned, IsComma) > 0
         THEN IF Len(cleaned) - RFind(cleaned, ",") = 2
              THEN ReplaceChar(cleaned, ",", ".")
              ELSE SelectSeq(cleaned, NotComma)
         ELSE cleaned

IntDigits(lit) == IF RFind(lit, ".") = 0 THEN lit ELSE SubSeq(lit, 1, RFind(lit, ".") - 1)

FracDigits(lit) == IF RFind(lit, ".") = 0 THEN <<>> ELSE SubSeq(lit, RFind(lit, ".") + 1, Len(lit))

RECURSIVE DropZeros(_)
DropZeros(s) == IF s # <<>> /\ Head(s) = "0" THEN DropZeros(Tail(s)) ELSE s

IsZeroChar(c) == c = "0"

\* 0.01 <= float(lit) <= 999999999.99, decided on the digits
AmountInRange(lit) ==
    LET ip == DropZeros(IntDigits(lit))
        fp == FracDigits(lit)
        f1 == IF Len(fp) >= 1 THEN DigitVal[fp[1]] ELSE 0
        f2 == IF Len(fp) >= 2 THEN DigitVal[fp[2]] ELSE 0
        rest == IF Len(fp) > 2 THEN SubSeq(fp, 3, Len(fp)) ELSE <<>>
    IN  /\ (ip # <<>> \/ f1 > 0 \/ f2 > 0)
        /\ \/ Len(ip) < 9
           \/ /\ Len(ip) = 9
              /\ \/ \E i \in 1..9 : ip[i] # "9"
                 \/ 10 * f1 + f2 < 99
                 \/ (10 * f1 + f2 = 99 /\ AllChars(rest, IsZeroChar))

ValidateMonto(value) ==
    LET cleaned == SelectSeq(value, IsAmountChar)
    IN  /\ cleaned # <<>>
        /\ IsFloatLiteral(AmountStr(cleaned))
        /\ AmountInRange(AmountStr(cleaned))

\* the clock of the run, as (year, month, day)
NowDate == <<2025, 7, 15>>

IsLeap(y) == (y % 4 = 0 /\ y % 100 # 0) \/ y % 400 = 0

DaysInMonth(y, m) == IF m = 2 THEN (IF IsLeap(y) THEN 29 ELSE 28)
                     ELSE IF m \in {4, 6, 9, 11} THEN 30 ELSE 31

RECURSIVE DaysBeforeMonth(_, _)
DaysBeforeMonth(y, m) == IF m <= 1 THEN 0 ELSE DaysBeforeMonth(y, m - 1) + DaysInMonth(y, m - 1)

\* datetime.toordinal()
Ordinal(y, m, d) ==
    365 * (y - 1) + ((y - 1) \div 4) - ((y - 1) \div 100) + ((y - 1) \div 400)
      + DaysBeforeMonth(y, m) + d

RECURSIVE NumVal(_)
NumVal(s) == IF s = <<>> THEN 0 ELSE 10 * NumVal(SubSeq(s, 1, Len(s) - 1)) + DigitVal[s[Len(s)]]

\* the parts of s between the occurrences of the character c
RECURSIVE SplitOn(_, _)
SplitOn(s, c) ==
    IF \E i \in 1..Len(s) : s[i] = c
    THEN LET n == CHOOSE i \in 1..Len(s) : s[i] = c /\ \A j \in 1..(i - 1) : s[j] # c
         IN  <<SubSeq(s, 1, n - 1)>> \o SplitOn(SubSeq(s, n + 1, Len(s)), c)
    ELSE <<s>>

\* the strptime directives %d, %m, %Y and %y
DayTok(t) == \/ Len(t) = 1 /\ IsDigit(t[1]) /\ t[1] # "0"
             \/ Len(t) = 2 /\ AllChars(t, IsDigit) /\ NumVal(t) \in 1..31
             \/ Len(t) = 2 /\ t[1] = " " /\ IsDigit(t[2]) /\ t[2] # "0"

MonthTok(t) == \/ Len(t) = 1 /\ IsDigit(t[1]) /\ t[1] # "0"
               \/ Len(t) = 2 /\ AllChars(t, IsDigit) /\ NumVal(t) \in 1..12

Year4Tok(t) == Len(t) = 4 /\ AllChars(t, IsDigit)

Year2Tok(t) == Len(t) = 2 /\ AllChars(t, IsDigit)

TokVal(t) == NumVal(SelectSeq(t, IsDigit))

Year2Val(t) == IF NumVal(t) <= 68 THEN 2000 + NumVal(t) ELSE 1900 + NumVal(t)

CalendarOk(y, m, d) == y >= 1 /\ d <= DaysInMonth(y, m)

\* datetime.strptime(s, fmt) for the numeric formats: <<TRUE, y, m, d>> or <<FALSE>>;
\* fmt is [sep, ymd (year first), y4 (four-digit year)]
StrpNumeric(s, fmt) ==
    LET p == SplitOn(s, fmt.sep)
    IN  IF Len(p) # 3 THEN <<FALSE>>
        ELSE LET dt == IF fmt.ymd THEN p[3] ELSE p[1]
                 mt == p[2]
                 yt == IF fmt.ymd THEN p[1] ELSE p[3]
             IN  IF /\ DayTok(dt) /\ MonthTok(mt)
                    /\ (IF fmt.y4 THEN Year4Tok(yt) ELSE Year2Tok(yt))
                 THEN LET y == IF fmt.y4 THEN NumVal(yt) ELSE Year2Val(yt)
                      IN  IF CalendarOk(y, TokVal(mt), TokVal(dt))
                          THEN <<TRUE, y, TokVal(mt), TokVal(dt)>>
                          ELSE <<FALSE>>
                 ELSE <<FALSE>>

\* '%d/%m/%Y', '%d-%m-%Y', '%d/%m/%y', '%d-%m-%y', '%Y-%m-%d'
NumericDateFormats ==
    << [sep |-> "/", ymd |-> FALSE, y4 |-> TRUE],
       [sep |-> "-", ymd |-> FALSE, y4 |-> TRUE],
       [sep |-> "/", ymd |-> FALSE, y4 |-> FALSE],
       [sep |-> "-", ymd |-> FALSE, y4 |-> FALSE],
       [sep |-> "-", ymd |-> TRUE,  y4 |-> TRUE] >>

\* the month names of %B (C locale), lower case
MonthNames ==
    << <<"j","a","n","u","a","r","y">>, <<"f","e","b","r","u","a","r","y">>,
       <<"m","a","r","c","h">>, <<"a","p","r","i","l">>, <<"m","a","y">>,
       <<"j","u","n","e">>, <<"j","u","l","y">>, <<"a","u","g","u","s","t">>,
       <<"s","e","p","t","e","m","b","e","r">>, <<"o","c","t","o","b","e","r">>,
       <<"n","o","v","e","m","b","e","r">>, <<"d","e","c","e","m","b","e","r">> >>

\* datetime.strptime(s, '%d de %B de %Y'): a blank of the format matches one or
\* more whitespace characters, so the words of s are day, "de", month, "de", year
StrpLong(s) ==
    LET w == SplitWords(s)
    IN  IF /\ Len(w) = 5
           /\ ~IsSpace(s[Len(s)])
           /\ Lower(w[2]) = <<"d", "e">> /\ Lower(w[4]) = <<"d", "e">>
           /\ (DayTok(w[1]) \/ (IsSpace(s[1]) /\ Len(w[1]) = 1 /\ DayTok(<<" ">> \o w[1])))
           /\ \E m \in 1..12 : Lower(w[3]) = MonthNames[m]
           /\ Year4Tok(w[5])
        THEN LET m == CHOOSE k \in 1..12 : Lower(w[3]) = MonthNames[k]
             IN  IF CalendarOk(NumVal(w[5]), m, TokVal(w[1]))
                 THEN <<TRUE, NumVal(w[5]), m, TokVal(w[1])>>
                 ELSE <<FALSE>>
        ELSE <<FALSE>>

\* parsed_date <= datetime.now() + timedelta(days=1), with parsed_date at midnight
NotAfterTomorrow(p) == Ordinal(p[2], p[3], p[4]) <= Ordinal(NowDate[1], NowDate[2], NowDate[3]) + 1

\* the first numeric format, from position k on, that parses s
RECURSIVE FirstNumericParse(_, _)
FirstNumericParse(s, k) ==
    IF k > Len(NumericDateFormats) THEN <<FALSE>>
    ELSE IF StrpNumeric(s, NumericDateFormats[k])[1] THEN StrpNumeric(s, NumericDateFormats[k])
         ELSE FirstNumericParse(s, k + 1)

\* DataExtractor.validate_date_format: the five numeric formats, then the long one
validate_date_format(date_str) ==
    LET p == FirstNumericParse(date_str, 1)
        q == IF p[1] \/ date_str = <<>> THEN p ELSE StrpLong(date_str)
    IN  q[1] /\ NotAfterTomorrow(q)

\* DataExtractorV2.validate_date_format: the five numeric formats only
validate_date_format_v2(date_str) ==
    LET p == FirstNumericParse(date_str, 1)
    IN  p[1] /\ NotAfterTomorrow(p)

\* DataExtractor.validate_field_value
validate_field_value(field_name, value) ==
    IF Strip(value) = <<>> THEN FALSE
    ELSE LET v == Strip(value)
         IN  CASE field_name = "monto" -> ValidateMonto(v)
               [] field_name = "referencia" -> CountChars(v, IsWordChar) \in 6..20
               [] field_name \in {"cedula_origen", "cedula_destino"} -> CountChars(v, IsDigit) \in 7..9
               [] field_name = "fecha" -> validate_date_format(v)
               [] OTHER -> TRUE

\* DataExtractorV2.validate_field_value
validate_field_value_v2(field_name, value) ==
    IF Strip(value) = <<>> THEN FALSE
    ELSE LET v == Strip(value)
         IN  CASE field_name = "monto" -> ValidateMonto(v)
               [] field_name = "operacion" -> CountChars(v, IsWordChar) \in 6..20
               [] field_name = "identificacion" -> CountChars(v, IsDigit) \in 7..9
               [] field_name = "fecha" -> validate_date_format_v2(v)
               [] OTHER -> TRUE

(***************************************************************************)
(* Patterns of the extractors (re.findall over the full OCR text)          *)
(***************************************************************************)

\* \d{1,3}(?:G\d{3})*D\d{2} with grouping separator G and decimal separator D
GroupedAmount(s, g, d) ==
    /\ Len(s) >= 4
    /\ s[Len(s) - 2] = d /\ IsDigit(s[Len(s) - 1]) /\ IsDigit(s[Len(s)])
    /\ LET parts == SplitOn(SubSeq(s, 1, Len(s) - 3), g)
       IN  /\ \A k \in 1..Len(parts) : AllChars(parts[k], IsDigit)
           /\ Len(parts[1]) \in 1..3
           /\ \A k \in 2..Len(parts) : Len(parts[k]) = 3

\* \d+D\d{2} with D one of the characters of seps
SimpleAmount(s, seps) ==
    /\ Len(s) >= 4
    /\ s[Len(s) - 2] \in seps /\ IsDigit(s[Len(s) - 1]) /\ IsDigit(s[Len(s)])
    /\ AllChars(SubSeq(s, 1, Len(s) - 3), IsDigit)

DigitRun(s, lo, hi) == Len(s) \in lo..hi /\ AllChars(s, IsDigit)

DropOpt(s, c) == IF s # <<>> /\ s[1] = c THEN Tail(s) ELSE s

\* [VE]-?\d{7,9}, case-insensitive when ic
LetterId(s, ic) ==
    /\ s # <<>>
    /\ (s[1] \in {"V", "E"} \/ (ic /\ s[1] \in {"v", "e"}))
    /\ DigitRun(DropOpt(Tail(s), "-"), 7, 9)

\* C\.?I\.?\s*:?\s*\d{7,9}, case-insensitive
CiId(s) ==
    /\ s # <<>> /\ s[1] \in {"C", "c"}
    /\ LET r1 == DropOpt(Tail(s), ".")
       IN  /\ r1 # <<>> /\ r1[1] \in {"I", "i"}
           /\ DigitRun(LStrip(DropOpt(LStrip(DropOpt(Tail(r1), ".")), ":")), 7, 9)

\* \d{1,2}[/-]\d{1,2}[/-]\d{2,4}
ShortDate(s) ==
    \E a \in 1..2 : \E b \in 1..2 :
       /\ Len(s) - a - b - 2 \in 2..4
       /\ AllChars(SubSeq(s, 1, a), IsDigit)
       /\ s[a + 1] \in {"/", "-"}
       /\ AllChars(SubSeq(s, a + 2, a + 1 + b), IsDigit)
       /\ s[a + b + 2] \in {"/", "-"}
       /\ AllChars(SubSeq(s, a + b + 3, Len(s)), IsDigit)

\* \d{1,2}\s+de\s+\w+\s+de\s+\d{4}, case-insensitive
LongDate(s) ==
    LET w == SplitWords(s)
    IN  /\ s # <<>> /\ ~IsSpace(s[1]) /\ ~IsSpace(s[Len(s)])
        /\ Len(w) = 5
        /\ DigitRun(w[1], 1, 2)
        /\ Lower(w[2]) = <<"d", "e">> /\ Lower(w[4]) = <<"d", "e">>
        /\ AllChars(w[3], IsWordChar)
        /\ DigitRun(w[5], 4, 4)

\* \d{4}-\d{2}-\d{2}
IsoDate(s) ==
    /\ Len(s) = 10
    /\ s[5] = "-" /\ s[8] = "-"
    /\ AllChars(SubSeq(s, 1, 4) \o SubSeq(s, 6, 7) \o SubSeq(s, 9, 10), IsDigit)

\* \b at both ends of text[i..j], whose first and last characters are word characters
WordBounded(text, i, j) ==
    /\ (i = 1 \/ ~IsWordChar(text[i - 1]))
    /\ (j = Len(text) \/ ~IsWordChar(text[j + 1]))

\* text[i..j] is a match of the pattern named pid
PatternMatches(pid, text, i, j) ==
    LET s == SubSeq(text, i, j)
    IN  CASE pid = "amount_ve" -> GroupedAmount(s, ".", ",")
          [] pid = "amount_int" -> GroupedAmount(s, ",", ".")
          [] pid = "amount_simple" -> SimpleAmount(s, {",", "."})
          [] pid = "digits" -> DigitRun(s, 1, Len(s))
          [] pid = "ref_digits" -> DigitRun(s, 8, 15)
          [] pid = "ref_alnum" -> Len(s) \in 8..20 /\ AllChars(s, IsAlnum)
          [] pid = "id_letter" -> LetterId(s, TRUE)
          [] pid = "id_ci" -> CiId(s)
          [] pid = "id_digits" -> DigitRun(s, 7, 9)
          [] pid = "date_short" -> ShortDate(s)
          [] pid = "date_long" -> LongDate(s)
          [] pid = "date_iso" -> IsoDate(s)
          [] pid = "b_amount_ve" -> GroupedAmount(s, ".", ",") /\ WordBounded(text, i, j)
          [] pid = "b_amount_comma" -> SimpleAmount(s, {","}) /\ WordBounded(text, i, j)
          [] pid = "b_amount_dot" -> SimpleAmount(s, {"."}) /\ WordBounded(text, i, j)
          [] pid = "b_ref_digits" -> DigitRun(s, 8, 15) /\ WordBounded(text, i, j)
          [] pid = "b_id_letter" -> LetterId(s, TRUE) /\ WordBounded(text, i, j)
          [] pid = "b_id_ci" -> CiId(s) /\ WordBounded(text, i, j)

\* the end of the (greedy, hence longest) match that starts at i, 0 when there is none
LastOf(ends) == IF ends = {} THEN 0 ELSE CHOOSE j \in ends : \A k \in ends : k <= j

MatchEnd(pid, text, i) == LastOf({ j \in i..Len(text) : PatternMatches(pid, text, i, j) })

\* re.findall(pattern, text): the non-overlapping matches, scanning from position i
RECURSIVE FindAllFrom(_, _, _)
FindAllStep(pid, text, i, e) ==
    IF e = 0 THEN FindAllFrom(pid, text, i + 1)
    ELSE <<SubSeq(text, i, e)>> \o FindAllFrom(pid, text, e + 1)

FindAllFrom(pid, text, i) ==
    IF i > Len(text) THEN <<>> ELSE FindAllStep(pid, text, i, MatchEnd(pid, text, i))

FindAll(pid, text) == FindAllFrom(pid, text, 1)

\* max(matches, key=len): the first of the longest
LongestOf(ms) == ms[CHOOSE k \in 1..Len(ms) :
                      /\ \A n \in 1..Len(ms) : Len(ms[n]) <= Len(ms[k])
                      /\ \A n \in 1..(k - 1) : Len(ms[n]) < Len(ms[k])]

(***************************************************************************)
(* Bounds, and the fixed-point representation of confidences               *)
(***************************************************************************)

\* feedback entries folded into the correction model in one behaviour
MaxFeedback == 2

\* fields of one document
MaxFields == 2

\* A confidence or confidence adjustment c is held as the integer c * ConfScale.
\* update_confidence_adjustment halves once per folded entry, so every value the
\* retrainer can produce within MaxFeedback folds is such an integer.
ConfScale == 2 ^ MaxFeedback

Conf(n) == n * ConfScale

Min(a, b) == IF a <= b THEN a ELSE b

Max(a, b) == IF a >= b THEN a ELSE b

(***************************************************************************)
(* Contextual heuristics of DataExtractor (v1)                             *)
(***************************************************************************)

\* self.validation_patterns.get(field_name, []) of DataExtractor
validation_patterns(field_name) ==
    CASE field_name = "monto" -> <<"amount_ve", "amount_int", "amount_simple", "digits">>
      [] field_name = "referencia" -> <<"ref_digits", "ref_alnum">>
      [] field_name = "cedula" -> <<"id_letter", "id_digits">>
      [] field_name = "fecha" -> <<"date_short", "date_long", "date_iso">>
      [] OTHER -> <<>>

\* the loop over the patterns: the first match of the first pattern whose first
\* match validates, as <<TRUE, candidate>>, or <<FALSE>>
RECURSIVE FirstValidCandidate(_, _, _, _)
CandidateOf(field_name, pats, k, full_text, ms) ==
    IF ms # <<>> /\ validate_field_value(field_name, ms[1])
    THEN <<TRUE, ms[1]>>
    ELSE FirstValidCandidate(field_name, pats, k + 1, full_text)

FirstValidCandidate(field_name, pats, k, full_text) ==
    IF k > Len(pats) THEN <<FALSE>>
    ELSE CandidateOf(field_name, pats, k, full_text, FindAll(pats[k], full_text))

amount_keywords ==
    << <<"b", "s">>, <<"m", "o", "n", "t", "o">>, <<"t", "o", "t", "a", "l">>,
       <<"c", "a", "n", "t", "i", "d", "a", "d">>,
       <<"b", "o", "l", "i", "v", "a", "r", "e", "s">> >>

IsAmountKeywordWord(word) == \E k \in 1..Len(amount_keywords) : Contains(Lower(word), amount_keywords[k])

\* DataExtractor.find_amount_near_keywords: the first word, among the three that
\* follow a keyword word, whose cleaned text validates as an amount
\* the pairs <<i, j>>: word i holds a keyword, word j is one of the three after it
\* and its cleaned text validates as an amount
AmountHits(words) ==
    { q \in (1..Len(words)) \X (1..Len(words)) :
          /\ IsAmountKeywordWord(words[q[1]])
          /\ q[2] \in (q[1] + 1)..Min(q[1] + 3, Len(words))
          /\ validate_field_value("monto", SelectSeq(words[q[2]], IsAmountChar)) }

FirstHit(hits) ==
    CHOOSE q \in hits : \A r \in hits : q[1] < r[1] \/ (q[1] = r[1] /\ q[2] <= r[2])

AmountOfHit(words, hits) ==
    IF hits = {} THEN <<(<<>>), 0>>
    ELSE <<SelectSeq(words[FirstHit(hits)[2]], IsAmountChar), Conf(75)>>

find_amount_near_keywords(full_text) ==
    AmountOfHit(SplitWords(full_text), AmountHits(SplitWords(full_text)))

\* DataExtractor.find_reference_number
LongestWith(ms, confidence) == IF ms # <<>> THEN <<LongestOf(ms), confidence>> ELSE <<(<<>>), 0>>

find_reference_number(full_text) == LongestWith(FindAll("ref_digits", full_text), Conf(70))

\* DataExtractor.find_cedula_number
\* "for pattern in patterns: matches = re.findall(...); if matches: return ..."
RECURSIVE FirstOfPatterns(_, _, _, _)
FirstOfStep(pats, k, full_text, confidence, ms) ==
    IF ms # <<>> THEN <<ms[1], confidence>>
    ELSE FirstOfPatterns(pats, k + 1, full_text, confidence)

FirstOfPatterns(pats, k, full_text, confidence) ==
    IF k > Len(pats) THEN <<(<<>>), 0>>
    ELSE FirstOfStep(pats, k, full_text, confidence, FindAll(pats[k], full_text))

find_cedula_number(full_text) ==
    FirstOfPatterns(<<"id_letter", "id_ci", "id_digits">>, 1, full_text, Conf(65))

\* DataExtractor.apply_contextual_heuristics: <<text, confidence>>
HeuristicsWith(field_name, extracted_text, confidence, full_text, c) ==
    IF c[1] THEN <<c[2], Min(confidence + Conf(20), Conf(95))>>
    ELSE IF field_name = "monto" THEN find_amount_near_keywords(full_text)
    ELSE IF field_name = "referencia" THEN find_reference_number(full_text)
    ELSE IF field_name \in {"cedula_origen", "cedula_destino"}
         THEN find_cedula_number(full_text)
    ELSE <<extracted_text, confidence>>

apply_contextual_heuristics(field_name, extracted_text, confidence, full_text) ==
    IF Strip(extracted_text) = <<>> \/ confidence < Conf(50)
    THEN HeuristicsWith(field_name, extracted_text, confidence, full_text,
                        FirstValidCandidate(field_name, validation_patterns(field_name), 1,
                                            full_text))
    ELSE <<extracted_text, confidence>>

(***************************************************************************)
(* Contextual heuristics of DataExtractorV2                                *)
(***************************************************************************)

\* self.validation_patterns.get(field_name, []) of DataExtractorV2
validation_patterns_v2(field_name) ==
    CASE field_name = "monto" -> <<"amount_ve", "amount_int", "amount_simple", "digits">>
      [] field_name = "operacion" -> <<"ref_digits", "ref_alnum">>
      [] field_name = "identificacion" -> <<"id_letter", "id_digits">>
      [] field_name = "fecha" -> <<"date_short", "date_long", "date_iso">>
      [] OTHER -> <<>>

RECURSIVE FirstValidCandidateV2(_, _, _, _)
CandidateOfV2(field_name, pats, k, full_text, ms) ==
    IF ms # <<>> /\ validate_field_value_v2(field_name, ms[1])
    THEN <<TRUE, ms[1]>>
    ELSE FirstValidCandidateV2(field_name, pats, k + 1, full_text)

FirstValidCandidateV2(field_name, pats, k, full_text) ==
    IF k > Len(pats) THEN <<FALSE>>
    ELSE CandidateOfV2(field_name, pats, k, full_text, FindAll(pats[k], full_text))

\* float(match.replace('.', '').replace(',', '.')) in hundredths: every match of
\* the three amount patterns of find_field_by_type ends in two decimals
NormalizedCents(match) == NumVal(SelectSeq(match, IsDigit))

\* max(amounts, key=lambda x: x[0])[1]: the first of the largest
LargestAmountOf(ms) == ms[CHOOSE k \in 1..Len(ms) :
                            /\ \A n \in 1..Len(ms) : NormalizedCents(ms[n]) <= NormalizedCents(ms[k])
                            /\ \A n \in 1..(k - 1) : NormalizedCents(ms[n]) < NormalizedCents(ms[k])]

\* DataExtractorV2.find_field_by_type
\* the loop over amount_patterns: the largest match of the first pattern that matches
RECURSIVE LargestOfPatterns(_, _, _)
LargestOfStep(pats, k, full_text, ms) ==
    IF ms # <<>> THEN <<LargestAmountOf(ms), Conf(80)>>
    ELSE LargestOfPatterns(pats, k + 1, full_text)

LargestOfPatterns(pats, k, full_text) ==
    IF k > Len(pats) THEN <<(<<>>), 0>>
    ELSE LargestOfStep(pats, k, full_text, FindAll(pats[k], full_text))

find_field_by_type(field_name, full_text) ==
    CASE field_name = "monto" ->
           LargestOfPatterns(<<"b_amount_ve", "b_amount_comma", "b_amount_dot">>, 1, full_text)
      [] field_name = "operacion" ->
           LongestWith(FindAll("b_ref_digits", full_text), Conf(75))
      [] field_name = "identificacion" ->
           FirstOfPatterns(<<"b_id_letter", "b_id_ci">>, 1, full_text, Conf(70))
      [] OTHER -> <<(<<>>), 0>>

\* DataExtractorV2.apply_contextual_heuristics: <<text, confidence>>
HeuristicsWithV2(field_name, extracted_text, confidence, full_text, c) ==
    IF c[1] THEN <<c[2], Min(confidence + Conf(30), Conf(95))>>
    ELSE IF field_name \in {"monto", "operacion", "identificacion"}
         THEN find_field_by_type(field_name, full_text)
    ELSE <<extracted_text, confidence>>

apply_contextual_heuristics_v2(field_name, extracted_text, confidence, full_text) ==
    HeuristicsWithV2(field_name, extracted_text, confidence, full_text,
                     FirstValidCandidateV2(field_name, validation_patterns_v2(field_name), 1,
                                           full_text))

(***************************************************************************)
(* Probabilistic correction model (LearningManager) and its retrainer      *)
(*                                                                         *)
(* probabilistic_model is a function field name -> raw OCR text -> entry.  *)
(* An entry keeps its corrections in insertion order (a Python dict, and   *)
(* the JSON file, keep it): a sequence of [value, count, causas].          *)
(***************************************************************************)

EmptyModel == [f \in {} |-> 0]

Put(f, k, v) == [x \in (DOMAIN f) \cup {k} |-> IF x = k THEN v ELSE f[x]]

\* the entry update_probabilistic_model_entry and update_confidence_adjustment create
NewOcrEntry == [total_correcciones |-> 0, confidence_adjustment |-> 0, corrections |-> <<>>]

\* the position of a correction with the highest count, the last one among equals
\* ("if count >= best_count")
LastBestCorrection(corrections) ==
    IF \E k \in 1..Len(corrections) : corrections[k].count > 0
    THEN CHOOSE k \in 1..Len(corrections) :
            /\ \A n \in 1..Len(corrections) : corrections[n].count <= corrections[k].count
            /\ \A n \in (k + 1)..Len(corrections) : corrections[n].count < corrections[k].count
    ELSE 0

\* the position of the correction with the highest count, the first one among
\* equals ("if count > best_count"), 0 when no count exceeds 0
BestCorrection(corrections) ==
    IF \E k \in 1..Len(corrections) : corrections[k].count > 0
    THEN CHOOSE k \in 1..Len(corrections) :
            /\ \A n \in 1..Len(corrections) : corrections[n].count <= corrections[k].count
            /\ \A n \in 1..(k - 1) : corrections[n].count < corrections[k].count
    ELSE 0

\* the lookup with the clamp applied to every result, a hit or not
get_probabilistic_correction_clamp_always(model, field_name, raw_ocr_output, current_confidence) ==
    LET clamped == Max(0, Min(Conf(100), current_confidence))
    IN  IF field_name \notin DOMAIN model THEN <<raw_ocr_output, clamped>>
        ELSE IF raw_ocr_output \notin DOMAIN model[field_name]
             THEN <<raw_ocr_output, clamped>>
        ELSE LET ocr_history == model[field_name][raw_ocr_output]
                 best == BestCorrection(ocr_history.corrections)
             IN  IF best # 0 /\ Truthy(ocr_history.corrections[best].value)
                 THEN <<ocr_history.corrections[best].value,
                        Max(0, Min(Conf(100),
                                   current_confidence + ocr_history.confidence_adjustment))>>
                 ELSE <<raw_ocr_output, clamped>>

\* the lookup without "max(0.0, min(100.0, ...))"
get_probabilistic_correction_unclamped(model, field_name, raw_ocr_output, current_confidence) ==
    IF field_name \notin DOMAIN model THEN <<raw_ocr_output, current_confidence>>
    ELSE IF raw_ocr_output \notin DOMAIN model[field_name]
         THEN <<raw_ocr_output, current_confidence>>
    ELSE LET ocr_history == model[field_name][raw_ocr_output]
             best == BestCorrection(ocr_history.corrections)
         IN  IF best # 0 /\ Truthy(ocr_history.corrections[best].value)
             THEN <<ocr_history.corrections[best].value,
                    current_confidence + ocr_history.confidence_adjustment>>
             ELSE <<raw_ocr_output, current_confidence>>

\* LearningManager.get_probabilistic_correction: <<text, confidence>>
get_probabilistic_correction(model, field_name, raw_ocr_output, current_confidence) ==
    IF field_name \notin DOMAIN model THEN <<raw_ocr_output, current_confidence>>
    ELSE IF raw_ocr_output \notin DOMAIN model[field_name]
         THEN <<raw_ocr_output, current_confidence>>
    ELSE LET ocr_history == model[field_name][raw_ocr_output]
             best == BestCorrection(ocr_history.corrections)
         IN  IF best # 0 /\ Truthy(ocr_history.corrections[best].value)
             THEN <<ocr_history.corrections[best].value,
                    Max(0, Min(Conf(100), current_confidence + ocr_history.confidence_adjustment))>>
             ELSE <<raw_ocr_output, current_confidence>>

\* calculate_confidence_adjustment: the table of root causes, 0 for any other cause
calculate_confidence_adjustment(root_cause) ==
    CASE root_cause = "mala_segmentacion" -> Conf(-10)
      [] root_cause = "caracter_mal_reconocido" -> Conf(-5)
      [] root_cause = "campo_no_detectado" -> Conf(-15)
      [] root_cause = "error_de_plantilla" -> Conf(-8)
      [] root_cause = "formato_erroneo" -> Conf(-3)
      [] root_cause = "info_faltante" -> Conf(-12)
      [] root_cause = "ruido_imagen" -> Conf(-7)
      [] root_cause = "distorsion_imagen" -> Conf(-6)
      [] root_cause = "clasificacion_erronea_no_recibo" -> Conf(-20)
      [] root_cause = "otro" -> Conf(-2)
      [] OTHER -> 0

\* the model with the entry of (field_name, raw_ocr) created when it is missing
WithOcrEntry(model, field_name, raw_ocr) ==
    LET m1 == IF field_name \in DOMAIN model THEN model ELSE Put(model, field_name, EmptyModel)
    IN  IF raw_ocr \in DOMAIN m1[field_name] THEN m1
        ELSE Put(m1, field_name, Put(m1[field_name], raw_ocr, NewOcrEntry))

CorrectionIndex(corrections, value) ==
    IF \E k \in 1..Len(corrections) : corrections[k].value = value
    THEN CHOOSE k \in 1..Len(corrections) : corrections[k].value = value
    ELSE 0

\* update_probabilistic_model_entry
update_probabilistic_model_entry(model, field_name, raw_ocr, corrected_value, root_cause) ==
    LET m1 == WithOcrEntry(model, field_name, raw_ocr)
        e == m1[field_name][raw_ocr]
        cs == IF CorrectionIndex(e.corrections, corrected_value) # 0 THEN e.corrections
              ELSE Append(e.corrections,
                          [value |-> corrected_value, count |-> 0, causas |-> EmptyModel])
        k == CorrectionIndex(cs, corrected_value)
        old == IF root_cause \in DOMAIN cs[k].causas THEN cs[k].causas[root_cause] ELSE 0
        c2 == [cs[k] EXCEPT !.count = @ + 1, !.causas = Put(@, root_cause, old + 1)]
        e2 == [e EXCEPT !.corrections = [cs EXCEPT ![k] = c2],
                        !.total_correcciones = @ + 1]
    IN  Put(m1, field_name, Put(m1[field_name], raw_ocr, e2))

\* the update of the adjustment with the delta added instead of averaged
update_confidence_adjustment_added(model, field_name, raw_ocr_output, adjustment) ==
    LET m1 == WithOcrEntry(model, field_name, raw_ocr_output)
        e == m1[field_name][raw_ocr_output]
        e2 == [e EXCEPT !.confidence_adjustment = @ + adjustment]
    IN  Put(m1, field_name, Put(m1[field_name], raw_ocr_output, e2))

\* LearningManager.update_confidence_adjustment, without its save
update_confidence_adjustment(model, field_name, raw_ocr_output, adjustment) ==
    LET m1 == WithOcrEntry(model, field_name, raw_ocr_output)
        e == m1[field_name][raw_ocr_output]
        e2 == [e EXCEPT !.confidence_adjustment = (@ + adjustment) \div 2]
    IN  Put(m1, field_name, Put(m1[field_name], raw_ocr_output, e2))

\* one iteration of the loop of process_feedback_entries on the row
FoldEntry(model, row) ==
    LET m1 == update_probabilistic_model_entry(model, row.field, row.raw, row.corrected, row.cause)
    IN  IF calculate_confidence_adjustment(row.cause) # 0
        THEN update_confidence_adjustment(m1, row.field, row.raw,
                                          calculate_confidence_adjustment(row.cause))
        ELSE m1

RECURSIVE FoldAll(_, _)
FoldAll(model, rows) == IF rows = <<>> THEN model ELSE FoldAll(FoldEntry(model, Head(rows)), Tail(rows))

(***************************************************************************)
(* State                                                                   *)
(***************************************************************************)
VARIABLES
    store,                  \* the persisted CorrectionModel file: [exists, model]
    feedback_csv,           \* the pending feedback log: [exists, rows]
    archive,                \* the archived feedback files, oldest first
    n_feedback,             \* feedback entries added so far
    rt_pc,                  \* position of the retrainer run (update_probabilistic_model.main)
    rt_df,                  \* the rows the retrainer run loaded
    rt_i,                   \* the row the retrainer run processes next
    rt_model,               \* probabilistic_model of the retrainer's LearningManager
    lm,                     \* the pipeline's LearningManager: [present, model]
    last_lookup,            \* the last get_probabilistic_correction call and its result
    version,                \* "v1": extract_data, "v2": extract_data_v2
    campos,                 \* template_or_zoi_data['campos'], in order
    campos_is_map,          \* FALSE when 'campos' is not a mapping
    full_text,              \* ocr_data_full['full_text']
    pc,                     \* position of the extraction
    idx,                    \* the field processed next
    campos_extraidos,       \* extraction_result['campos_extraidos']
    lookups,                \* per field, the correction lookup made for it
    total_confidence,
    successful_extractions,
    overall_confidence,     \* <<numerator, denominator>>
    validation_results,
    status,                 \* extraction_result['status'], "absent" without the key
    error,                  \* extraction_result['error'], "absent" without the key
    templates,              \* TemplateManager.templates, in iteration order
    tm_pc,                  \* position of identify_best_template
    tm_i,                   \* the template evaluated next
    best,                   \* best_template and best_score of the loop
    tm_result,              \* what identify_best_template returned
    all_ocr_words,          \* the token list given to calculate_flexible_zoi
    zoi_pc,                 \* position of calculate_flexible_zoi: phase A, phase B, done
    zoi_k,                  \* the field of FIELD_DEFINITIONS processed next
    words_used,             \* the set words_used of token indices
    extracted_fields_zoi,   \* extracted_fields_zoi, field -> value, confidence, roi
    zoi_log,                \* per processed field, the anchor and value tokens it took
    ep_input,               \* an invocation of an entry point: program, argv, image file, failures
    ep_pc,                  \* position of the invocation
    ep_result,              \* the result dictionary of process_receipt / process_image_v2
    ep_exit,                \* how the invocation ended: exit code or uncaught exception
    sv_file,                \* the store file under a writer: [state, model]
    sv_pc,                  \* position of the writer in save_probabilistic_model
    sv_model,               \* probabilistic_model of the writer's LearningManager
    sv_folds,               \* feedback rows the writer has folded
    sv_saved,               \* the model of the last save that completed
    rd,                     \* the last load_probabilistic_model of a reader and what it met
    pa_text,                \* the text given to an amount parser
    pa_out,                 \* the parser applied and the string it hands to float()
    roi_call,               \* a call of find_text_in_roi_flexible: its arguments
    roi_found,              \* what the call returned and the combinations it tried
    rt_stops,               \* retrainer runs that ended without the archive
    template_files,         \* the *.yaml files of TEMPLATES_DIR: [stem, parses]
    model_file,             \* the file at PROBABILISTIC_MODEL_PATH: [exists, model]
    given_file,             \* that file as the processes found it
    loaded_templates,       \* TemplateManager.templates after load_templates
    loaded_model,           \* LearningManager.probabilistic_model after the load
    di_pc,                  \* templates loaded, model loaded, model saved
    id_input,               \* an identification: version and what scorer, converter and locator return
    id_pc,                  \* position of identify_template_or_zoi / identify_template_or_zoi_v2
    id_trace,               \* the consultations made so far, in order
    id_result,              \* the dictionary returned
    dz_ocr,                 \* the OCR boxes given to calculate_dynamic_zoi (template_manager_fixed)
    dz_image,               \* image_dimensions: [width, height]
    dz_pc,                  \* position of calculate_dynamic_zoi
    dz_k,                   \* the field of field_keywords_map processed next
    dz_campos,              \* dynamic_zoi['campos']
    dz_log,                 \* per processed field, whether strategy 1 gave a zone and the fallback was called
    ex_call,                \* the arguments of expand_search_from_center and the OCR of each window
    ex_pc,                  \* position inside expand_search_from_center
    ex_i,                   \* index in radii of the window visited next
    ex_best,                \* best_result
    ex_best_confidence,     \* best_confidence
    ex_visited,             \* the radii whose window was read, in order
    ex_result               \* what expand_search_from_center returned or raised

vars == <<store, feedback_csv, archive, n_feedback, rt_pc, rt_df, rt_i, rt_model, lm,
          last_lookup, version, campos, campos_is_map, full_text, pc, idx,
          campos_extraidos, lookups, total_confidence, successful_extractions,
          overall_confidence, validation_results, status, error, templates, tm_pc, tm_i,
          best, tm_result, all_ocr_words, zoi_pc, zoi_k, words_used, extracted_fields_zoi,
          zoi_log, ep_input, ep_pc, ep_result, ep_exit, sv_file, sv_pc, sv_model, sv_folds,
          sv_saved, rd, pa_text, pa_out, roi_call, roi_found, rt_stops,
          template_files, model_file, given_file, loaded_templates, loaded_model, di_pc,
          id_input, id_pc, id_trace, id_result,
          dz_ocr, dz_image, dz_pc, dz_k, dz_campos, dz_log,
          ex_call, ex_pc, ex_i, ex_best, ex_best_confidence, ex_visited, ex_result>>

lmVars == <<store, feedback_csv, archive, n_feedback, rt_pc, rt_df, rt_i, rt_model, lm,
            last_lookup>>

retrainerVars == <<feedback_csv, archive, n_feedback, rt_pc, rt_df, rt_i, rt_model>>

docVars == <<version, campos, campos_is_map, full_text, pc, idx, campos_extraidos, lookups,
             total_confidence, successful_extractions, overall_confidence,
             validation_results, status, error>>

tmVars == <<templates, tm_pc, tm_i, best, tm_result>>

zoiVars == <<all_ocr_words, zoi_pc, zoi_k, words_used, extracted_fields_zoi, zoi_log>>

epVars == <<ep_input, ep_pc, ep_result, ep_exit>>

ioVars == <<sv_file, sv_pc, sv_model, sv_folds, sv_saved, rd>>

paVars == <<pa_text, pa_out>>

roiVars == <<roi_call, roi_found>>

stopVars == <<rt_stops>>

integrityVars == <<template_files, model_file, given_file, loaded_templates, loaded_model,
                   di_pc>>

identifyVars == <<id_input, id_pc, id_trace, id_result>>

dynamicVars == <<dz_ocr, dz_image, dz_pc, dz_k, dz_campos, dz_log>>

expandVars == <<ex_call, ex_pc, ex_i, ex_best, ex_best_confidence, ex_visited, ex_result>>

lateVars == <<roiVars, stopVars, integrityVars, identifyVars, dynamicVars, expandVars>>

auxVars == <<epVars, ioVars, paVars, lateVars>>

pipelineVars == <<lmVars, docVars, tmVars, zoiVars>>

(***************************************************************************)
(* Texts of the model                                                      *)
(***************************************************************************)
TxEmpty == <<>>

TxAbc == <<"a", "b", "c">>

TxAmount == <<"1", "2", "3", ",", "4", "5">>

TxAmountFixed == <<"1", "2", "8", ",", "4", "5">>

TxAmountOther == <<"1", "2", "3", ",", "4", "6">>

TxZero == <<"0">>

TxRef == <<"1", "2", "3", "4", "5", "6", "7", "8">>

TxDate == <<"1", "5", "/", "0", "7", "/", "2", "0", "2", "5">>

TxBadDate == <<"3", "1", "/", "0", "2", "/", "2", "0", "2", "4">>

TxHeuristicFallback == <<"H", "E", "U", "R", "I", "S", "T", "I", "C", "_",
                         "F", "A", "L", "L", "B", "A", "C", "K">>

\* "Total 123,45"
TxFullAmount == <<"T", "o", "t", "a", "l", " ", "1", "2", "3", ",", "4", "5">>

\* "Ref 12345678"
TxFullRef == <<"R", "e", "f", " ", "1", "2", "3", "4", "5", "6", "7", "8">>

FullTexts == {TxEmpty, TxFullAmount, TxFullRef}

(***************************************************************************)
(* Feedback rows and the stores they produce                               *)
(***************************************************************************)
Row(f, r, c, k) == [field |-> f, raw |-> r, corrected |-> c, cause |-> k]

FeedbackRows ==
    { Row("monto", TxAmount, TxAmountFixed, "caracter_mal_reconocido"),
      Row("monto", TxAmount, TxAmountOther, "otro"),
      Row("monto", TxAmount, TxAmountOther, "sin_clasificar"),
      Row("banco_origen", TxAbc, TxRef, "campo_no_detectado") }

NoStore == [exists |-> FALSE, model |-> EmptyModel]

StoreOf(rows) == [exists |-> TRUE, model |-> FoldAll(EmptyModel, rows)]

\* the stores a document can meet: none yet, the empty one, and retrained ones
DocStores ==
    { NoStore,
      StoreOf(<<>>),
      StoreOf(<<Row("monto", TxAmount, TxAmountFixed, "caracter_mal_reconocido"),
                Row("banco_origen", TxAbc, TxRef, "campo_no_detectado"),
                Row("concepto", TxAbc, TxRef, "campo_no_detectado")>>) }

(***************************************************************************)
(* Inputs of one document                                                  *)
(***************************************************************************)
\* the preprocessed image, by its shape
Image == [width |-> 4, height |-> 3]

RoiOk == [left |-> 1, top |-> 1, width |-> 2, height |-> 1]

RoiZeroWidth == [left |-> 1, top |-> 1, width |-> 0, height |-> 1]

NoRoi == [left |-> 0, top |-> 0, width |-> 0, height |-> 0]

\* a field_config: kind "roi" carries coordinates (templates and ZOI of v1), kind
\* "value" a value found by template_manager_v2, kind "novalue" none, and kind
\* "malformed" is a field_config that is not a mapping (None)
FieldConfig(n, k, r, v, c) == [name |-> n, kind |-> k, roi |-> r, value |-> v, confidence |-> c]

V1Configs ==
    { FieldConfig(n, "roi", RoiOk, TxEmpty, 0) :
          n \in {"monto", "referencia", "fecha", "cedula_origen", "banco_origen"} }
    \cup { FieldConfig("monto", "roi", RoiZeroWidth, TxEmpty, 0),
           FieldConfig("referencia", "malformed", NoRoi, TxEmpty, 0) }

V2Configs ==
    { FieldConfig("monto", "value", NoRoi, TxAmount, Conf(90)),
      FieldConfig("monto", "value", NoRoi, TxZero, Conf(55)),
      FieldConfig("monto", "novalue", NoRoi, TxEmpty, 0),
      FieldConfig("operacion", "value", NoRoi, TxRef, Conf(90)),
      FieldConfig("operacion", "novalue", NoRoi, TxEmpty, 0),
      FieldConfig("identificacion", "novalue", NoRoi, TxEmpty, 0),
      FieldConfig("fecha", "value", NoRoi, TxDate, Conf(60)),
      FieldConfig("fecha", "value", NoRoi, TxBadDate, Conf(90)),
      FieldConfig("concepto", "value", NoRoi, TxAbc, Conf(90)),
      FieldConfig("concepto", "malformed", NoRoi, TxEmpty, 0) }

\* the 'campos' mappings of at most MaxFields fields, in insertion order
RECURSIVE CamposUpTo(_, _)
CamposUpTo(configs, n) ==
    IF n = 0 THEN {<<>>}
    ELSE CamposUpTo(configs, n - 1)
         \cup { Append(cs, c) : <<cs, c>> \in
                  { x \in CamposUpTo(configs, n - 1) \X configs :
                        /\ Len(x[1]) = n - 1
                        /\ \A k \in 1..Len(x[1]) : x[1][k].name # x[2].name } }

CamposOf(v) == CamposUpTo(IF v = "v1" THEN V1Configs ELSE V2Configs, MaxFields)

\* what perform_directed_ocr can return: a stripped text and the average of the
\* word confidences, between 0 and 100
OcrOutcomes ==
    { <<TxEmpty, 0>>, <<TxAbc, Conf(80)>>, <<TxAbc, Conf(5)>>,
      <<TxAmount, Conf(90)>>, <<TxAmount, Conf(30)>> }

(***************************************************************************)
(* DataExtractor, DataExtractorV2                                          *)
(***************************************************************************)
\* DataExtractor.extract_roi_from_image returns an empty array
RoiEmpty(image, fc) ==
    IF fc.kind = "malformed" THEN TRUE
    ELSE LET left == Max(0, Min(fc.roi.left, image.width - 1))
             top == Max(0, Min(fc.roi.top, image.height - 1))
             right == Min(left + fc.roi.width, image.width)
             bottom == Min(top + fc.roi.height, image.height)
         IN  right <= left \/ bottom <= top

FieldEntry(v, c, raw, enh, ok, hasRaw, err) ==
    [value |-> v, confidence |-> c, raw_ocr_output |-> raw, enhanced_output |-> enh,
     extraction_successful |-> ok, has_raw_ocr_output |-> hasRaw, has_error |-> err]

\* DataExtractorV2.extract_field_value_direct
extract_field_value_direct(field_name, fc, text) ==
    IF fc.kind = "malformed" THEN FieldEntry(TxEmpty, 0, TxEmpty, TxEmpty, FALSE, FALSE, TRUE)
    ELSE IF fc.kind = "value" /\ Truthy(fc.value)
         THEN FieldEntry(fc.value, fc.confidence, fc.value, fc.value, TRUE, TRUE, FALSE)
    ELSE LET h == apply_contextual_heuristics_v2(field_name, TxEmpty, 0, text)
         IN  FieldEntry(h[1], h[2], TxHeuristicFallback, h[1], Strip(h[1]) # <<>>, TRUE, FALSE)

CrossFields(v) ==
    IF v = "v1" THEN {"monto", "referencia", "fecha"}
    ELSE {"monto", "operacion", "identificacion", "fecha"}

Validate(v, field_name, value) ==
    IF v = "v1" THEN validate_field_value(field_name, value)
    ELSE validate_field_value_v2(field_name, value)

\* perform_cross_field_validation of both extractors
ValidationOf(valid) ==
    [present |-> TRUE, valid |-> valid,
     cross_validation_passed |-> \A f \in DOMAIN valid : valid[f]]

\* the cross validation with the test "if value:" left out: empty values are
\* handed to the validator as well
perform_cross_field_validation_all(v, extracted) ==
    ValidationOf([f \in { g \in CrossFields(v) : g \in DOMAIN extracted }
                    |-> Validate(v, f, extracted[f].value)])

perform_cross_field_validation(v, extracted) ==
    ValidationOf([f \in { g \in CrossFields(v) :
                             g \in DOMAIN extracted /\ Truthy(extracted[g].value) }
                    |-> Validate(v, f, extracted[f].value)])

NoValidation == [present |-> FALSE, valid |-> EmptyModel, cross_validation_passed |-> FALSE]

\* overall_confidence < 50 on <<numerator, denominator>>
BelowFifty(overall) == overall[1] < Conf(50) * overall[2]

\* the status derivation with the confidence test moved before the validation test
DetermineStatusConfidenceFirst(successful, validation, overall) ==
    IF successful = 0 THEN "no_data_extracted"
    ELSE IF BelowFifty(overall) THEN "low_confidence"
    ELSE IF ~validation.cross_validation_passed THEN "validation_failed"
    ELSE "success"

\* "Determinar estado general"
DetermineStatus(successful, validation, overall) ==
    IF successful = 0 THEN "no_data_extracted"
    ELSE IF ~validation.cross_validation_passed THEN "validation_failed"
    ELSE IF BelowFifty(overall) THEN "low_confidence"
    ELSE "success"

(***************************************************************************)
(* Extraction of one document: LearningManager(), then extract_data or     *)
(* extract_data_v2                                                         *)
(***************************************************************************)
RetrainerIdle ==
    /\ feedback_csv = [exists |-> FALSE, rows |-> <<>>]
    /\ archive = <<>>
    /\ n_feedback = 0
    /\ rt_pc = "idle"
    /\ rt_df = <<>>
    /\ rt_i = 1
    /\ rt_model = EmptyModel

NoLookup ==
    [done |-> FALSE, field |-> "", raw |-> TxEmpty, confidence |-> 0, model |-> EmptyModel,
     text |-> TxEmpty, result |-> 0]

NoTemplate == [selected |-> FALSE, name |-> "", score |-> 0]

TMIdle ==
    /\ templates = <<>>
    /\ tm_pc = "start"
    /\ tm_i = 1
    /\ best = NoTemplate
    /\ tm_result = NoTemplate

ZoiIdle ==
    /\ all_ocr_words = <<>>
    /\ zoi_pc = "A"
    /\ zoi_k = 1
    /\ words_used = {}
    /\ extracted_fields_zoi = EmptyModel
    /\ zoi_log = <<>>

NoResult == [present |-> FALSE, status |-> "absent", final_status |-> "absent", has_error |-> FALSE]

NoInvocation ==
    [program |-> "none", argc_ok |-> TRUE, exists |-> TRUE, suffix_ok |-> TRUE, fail |-> "none",
     outcome |-> "absent"]

EpIdle ==
    /\ ep_input = NoInvocation
    /\ ep_pc = "ended"
    /\ ep_result = NoResult
    /\ ep_exit = "none"

NoRead ==
    [done |-> FALSE, model |-> EmptyModel, failed |-> FALSE, previous |-> EmptyModel,
     new |-> EmptyModel, during_save |-> FALSE]

IoIdle ==
    /\ sv_file = [state |-> "complete", model |-> EmptyModel]
    /\ sv_pc = "idle"
    /\ sv_model = EmptyModel
    /\ sv_folds = 0
    /\ sv_saved = EmptyModel
    /\ rd = NoRead

NoParse == [done |-> FALSE, parser |-> "none", amount |-> TxEmpty]

PaIdle ==
    /\ pa_text = TxEmpty
    /\ pa_out = NoParse

NoCall ==
    [words |-> <<>>, field_name |-> "none",
     roi_coords |-> [left |-> 0, top |-> 0, width |-> 0, height |-> 0],
     words_to_exclude |-> {}]

NoFound == [done |-> FALSE, second_pass |-> FALSE, tried |-> {}, matched_word_indices |-> {}]

RoiIdle ==
    /\ roi_call = NoCall
    /\ roi_found = NoFound

StopIdle == rt_stops = 0

IntegrityIdle ==
    /\ template_files = <<>>
    /\ model_file = NoStore
    /\ given_file = NoStore
    /\ loaded_templates = {}
    /\ loaded_model = EmptyModel
    /\ di_pc = "new"

NoIdentification ==
    [version |-> "none", words |-> FALSE, located |-> {},
     template |-> [selected |-> FALSE, name |-> "", campos |-> {}]]

NoIdentified == [present |-> FALSE, method |-> "", campos |-> {}]

IdentifyIdle ==
    /\ id_input = NoIdentification
    /\ id_pc = "start"
    /\ id_trace = <<>>
    /\ id_result = NoIdentified

DynamicIdle ==
    /\ dz_ocr = <<>>
    /\ dz_image = [width |-> 0, height |-> 0]
    /\ dz_pc = "fields"
    /\ dz_k = 1
    /\ dz_campos = EmptyModel
    /\ dz_log = <<>>

NoExpansion == [config |-> {}, field_name |-> "", windows |-> <<>>]

NoWindow == [outcome |-> "pending", value |-> <<>>, confidence |-> 0, radius |-> 0]

ExpandIdle ==
    /\ ex_call = NoExpansion
    /\ ex_pc = "radii"
    /\ ex_i = 1
    /\ ex_best = NoWindow
    /\ ex_best_confidence = 0
    /\ ex_visited = <<>>
    /\ ex_result = NoWindow

LateIdle == RoiIdle /\ StopIdle /\ IntegrityIdle /\ IdentifyIdle /\ DynamicIdle /\ ExpandIdle

AuxIdle == EpIdle /\ IoIdle /\ PaIdle /\ LateIdle

DocIdle ==
    /\ pc = "construct"
    /\ idx = 1
    /\ campos_extraidos = EmptyModel
    /\ lookups = EmptyModel
    /\ total_confidence = 0
    /\ successful_extractions = 0
    /\ overall_confidence = <<0, 1>>
    /\ validation_results = NoValidation
    /\ status = "absent"
    /\ error = "absent"

InitExtract ==
    /\ store \in DocStores
    /\ RetrainerIdle
    /\ lm = [present |-> FALSE, model |-> EmptyModel]
    /\ last_lookup = NoLookup
    /\ version \in {"v1", "v2"}
    /\ campos \in CamposOf(version)
    /\ campos_is_map \in IF Len(campos) = 1 THEN BOOLEAN ELSE {TRUE}
    /\ full_text \in FullTexts
    /\ DocIdle
    /\ AuxIdle
    /\ TMIdle
    /\ ZoiIdle

\* LearningManager.__init__ and load_probabilistic_model: a missing file is created
\* with the empty model by save_probabilistic_model
LoadedStore(st) == [exists |-> TRUE, model |-> IF st.exists THEN st.model ELSE EmptyModel]

LMConstruct ==
    /\ pc = "construct"
    /\ lm' = [present |-> TRUE, model |-> LoadedStore(store).model]
    /\ store' = LoadedStore(store)
    /\ pc' = "start"
    /\ UNCHANGED <<retrainerVars, last_lookup, version, campos, campos_is_map, full_text, idx,
                   campos_extraidos, lookups, total_confidence, successful_extractions,
                   overall_confidence, validation_results, status, error>>
    /\ UNCHANGED <<tmVars, zoiVars, auxVars>>

\* the head of extract_data and extract_data_v2, up to the loop over the fields
ExtractStart ==
    /\ pc = "start"
    /\ IF campos = <<>>
       THEN /\ error' = "no_fields_to_extract"
            /\ pc' = "done"
            /\ UNCHANGED status
       ELSE IF ~campos_is_map
       THEN /\ error' = "exception"
            /\ status' = "extraction_error"
            /\ pc' = "done"
       ELSE /\ pc' = "fields"
            /\ UNCHANGED <<status, error>>
    /\ UNCHANGED <<lmVars, version, campos, campos_is_map, full_text, idx, campos_extraidos,
                   lookups, total_confidence, successful_extractions, overall_confidence,
                   validation_results>>
    /\ UNCHANGED <<tmVars, zoiVars, auxVars>>

\* what one iteration of the loop leaves behind: the entry stored for the field
\* and the key of the correction lookup made for it, if any
FieldStep(entry, looked, key) == [entry |-> entry, looked |-> looked, key |-> key]

V1Stored(extracted_text, enhanced, corrected) ==
    FieldStep(FieldEntry(corrected[1], corrected[2], extracted_text, enhanced[1],
                         Strip(corrected[1]) # <<>>, TRUE, FALSE),
              TRUE, enhanced[1])

V1Corrected(model, field_name, extracted_text, enhanced) ==
    V1Stored(extracted_text, enhanced,
             get_probabilistic_correction(model, field_name, enhanced[1], enhanced[2]))

\* the body of the loop of extract_data for a field whose ROI is not empty and
\* whose directed OCR returned <<extracted_text, confidence>>
extract_data_field(model, field_name, extracted_text, confidence, text) ==
    V1Corrected(model, field_name, extracted_text,
                apply_contextual_heuristics(field_name, extracted_text, confidence, text))

V2Stored(field_result, corrected) ==
    FieldStep([field_result EXCEPT !.value = corrected[1], !.confidence = corrected[2]],
              TRUE, field_result.value)

V2Corrected(lmi, field_name, field_result) ==
    IF lmi.present /\ field_result.extraction_successful
    THEN V2Stored(field_result,
                  get_probabilistic_correction(lmi.model, field_name, field_result.value,
                                               field_result.confidence))
    ELSE FieldStep(field_result, FALSE, TxEmpty)

\* the body of the loop of extract_data_v2
extract_data_v2_field(lmi, fc, text) ==
    V2Corrected(lmi, fc.name, extract_field_value_direct(fc.name, fc, text))

\* the store of a field with the counter incremented for every stored entry
StoreFieldCountingAll(field_name, step) ==
    /\ campos_extraidos' = Put(campos_extraidos, field_name, step.entry)
    /\ lookups' = IF step.looked THEN Put(lookups, field_name, [key |-> step.key]) ELSE lookups
    /\ total_confidence' = total_confidence + step.entry.confidence
    /\ successful_extractions' = successful_extractions + 1

\* "extraction_result['campos_extraidos'][field_name] = ..." and the two counters
StoreField(field_name, step) ==
    /\ campos_extraidos' = Put(campos_extraidos, field_name, step.entry)
    /\ lookups' = IF step.looked THEN Put(lookups, field_name, [key |-> step.key]) ELSE lookups
    /\ total_confidence' = IF step.entry.extraction_successful
                           THEN total_confidence + step.entry.confidence
                           ELSE total_confidence
    /\ successful_extractions' = IF step.entry.extraction_successful
                                 THEN successful_extractions + 1
                                 ELSE successful_extractions

\* one iteration of the loop of extract_data
ExtractFieldV1 ==
    /\ pc = "fields"
    /\ version = "v1"
    /\ idx <= Len(campos)
    /\ idx' = idx + 1
    /\ IF RoiEmpty(Image, campos[idx])
       THEN UNCHANGED <<campos_extraidos, lookups, total_confidence, successful_extractions>>
       ELSE \E o \in OcrOutcomes :
              StoreField(campos[idx].name,
                         extract_data_field(lm.model, campos[idx].name, o[1], o[2], full_text))
    /\ UNCHANGED <<lmVars, version, campos, campos_is_map, full_text, pc, overall_confidence,
                   validation_results, status, error>>
    /\ UNCHANGED <<tmVars, zoiVars, auxVars>>

\* one iteration of the loop of extract_data_v2
ExtractFieldV2 ==
    /\ pc = "fields"
    /\ version = "v2"
    /\ idx <= Len(campos)
    /\ idx' = idx + 1
    /\ StoreField(campos[idx].name, extract_data_v2_field(lm, campos[idx], full_text))
    /\ UNCHANGED <<lmVars, version, campos, campos_is_map, full_text, pc, overall_confidence,
                   validation_results, status, error>>
    /\ UNCHANGED <<tmVars, zoiVars, auxVars>>

\* the tail of extract_data and extract_data_v2, after the loop over the fields
FinishWith(overall, validation) ==
    /\ overall_confidence' = overall
    /\ validation_results' = validation
    /\ status' = DetermineStatus(successful_extractions, validation, overall)

ExtractFinish ==
    /\ pc = "fields"
    /\ idx > Len(campos)
    /\ FinishWith(IF successful_extractions > 0
                  THEN <<total_confidence, successful_extractions>>
                  ELSE overall_confidence,
                  perform_cross_field_validation(version, campos_extraidos))
    /\ pc' = "done"
    /\ UNCHANGED <<lmVars, version, campos, campos_is_map, full_text, idx, campos_extraidos,
                   lookups, total_confidence, successful_extractions, error>>
    /\ UNCHANGED <<tmVars, zoiVars, auxVars>>

NextExtract ==
    \/ LMConstruct
    \/ ExtractStart
    \/ ExtractFieldV1
    \/ ExtractFieldV2
    \/ ExtractFinish

SpecExtract == InitExtract /\ [][NextExtract]_vars

(***************************************************************************)
(* Feedback, the retrainer (update_probabilistic_model.main) and lookups   *)
(***************************************************************************)
InitLM ==
    /\ store = NoStore
    /\ RetrainerIdle
    /\ lm = [present |-> FALSE, model |-> EmptyModel]
    /\ last_lookup = NoLookup
    /\ version = "v2"
    /\ campos = <<>>
    /\ campos_is_map = TRUE
    /\ full_text = TxEmpty
    /\ DocIdle
    /\ AuxIdle
    /\ TMIdle
    /\ ZoiIdle

\* LearningManager.add_feedback_entry
AddFeedback ==
    /\ n_feedback < MaxFeedback
    /\ \E row \in FeedbackRows :
          feedback_csv' = [exists |-> TRUE, rows |-> Append(feedback_csv.rows, row)]
    /\ n_feedback' = n_feedback + 1
    /\ UNCHANGED <<store, archive, rt_pc, rt_df, rt_i, rt_model, lm, last_lookup, docVars>>
    /\ UNCHANGED <<tmVars, zoiVars, auxVars>>

\* main() of the retrainer up to the loop: load_feedback_data and LearningManager()
RetrainStart ==
    /\ rt_pc = "idle"
    /\ feedback_csv.exists
    /\ feedback_csv.rows # <<>>
    /\ rt_df' = feedback_csv.rows
    /\ rt_model' = LoadedStore(store).model
    /\ store' = LoadedStore(store)
    /\ rt_i' = 1
    /\ rt_pc' = "process"
    /\ UNCHANGED <<feedback_csv, archive, n_feedback, lm, last_lookup, docVars>>
    /\ UNCHANGED <<tmVars, zoiVars, auxVars>>

\* one iteration of the loop of process_feedback_entries; update_confidence_adjustment
\* saves the model
RetrainRow ==
    /\ rt_pc = "process"
    /\ rt_i <= Len(rt_df)
    /\ rt_model' = FoldEntry(rt_model, rt_df[rt_i])
    /\ store' = IF calculate_confidence_adjustment(rt_df[rt_i].cause) # 0
                THEN [exists |-> TRUE, model |-> rt_model']
                ELSE store
    /\ rt_i' = rt_i + 1
    /\ UNCHANGED <<feedback_csv, archive, n_feedback, rt_pc, rt_df, lm, last_lookup, docVars>>
    /\ UNCHANGED <<tmVars, zoiVars, auxVars>>

\* "learning_manager.save_probabilistic_model()" after the loop
RetrainSave ==
    /\ rt_pc = "process"
    /\ rt_i > Len(rt_df)
    /\ store' = [exists |-> TRUE, model |-> rt_model]
    /\ rt_pc' = "archive"
    /\ UNCHANGED <<feedback_csv, archive, n_feedback, rt_df, rt_i, rt_model, lm, last_lookup,
                   docVars>>
    /\ UNCHANGED <<tmVars, zoiVars, auxVars>>

\* archive_processed_feedback: the feedback file as it is now is moved to the
\* archive and an empty one is created
RetrainArchive ==
    /\ rt_pc = "archive"
    /\ archive' = Append(archive, feedback_csv.rows)
    /\ feedback_csv' = [exists |-> TRUE, rows |-> <<>>]
    /\ rt_pc' = "idle"
    /\ UNCHANGED <<store, n_feedback, rt_df, rt_i, rt_model, lm, last_lookup, docVars>>
    /\ UNCHANGED <<tmVars, zoiVars, auxVars>>

LookupFields == {"monto", "banco_origen"}

LookupTexts == {TxAmount, TxAbc}

LookupConfidences == {Conf(5), Conf(100), Conf(120)}

LookupRecord(model, field_name, raw, confidence, r) ==
    [done |-> TRUE, field |-> field_name, raw |-> raw, confidence |-> confidence,
     model |-> model, text |-> r[1], result |-> r[2]]

\* a call of get_probabilistic_correction on the pipeline's LearningManager
LookupCorrection ==
    /\ lm.present
    /\ \E f \in LookupFields, raw \in LookupTexts, c \in LookupConfidences :
          last_lookup' = LookupRecord(lm.model, f, raw, c,
                                      get_probabilistic_correction(lm.model, f, raw, c))
    /\ UNCHANGED <<store, retrainerVars, lm, docVars>>
    /\ UNCHANGED <<tmVars, zoiVars, auxVars>>

\* the pipeline runs on the next document, in a new process
NewDocument ==
    /\ pc = "start"
    /\ pc' = "construct"
    /\ lm' = [present |-> FALSE, model |-> EmptyModel]
    /\ UNCHANGED <<store, retrainerVars, last_lookup, version, campos, campos_is_map, full_text,
                   idx, campos_extraidos, lookups, total_confidence, successful_extractions,
                   overall_confidence, validation_results, status, error>>
    /\ UNCHANGED <<tmVars, zoiVars, auxVars>>

NextLM ==
    \/ AddFeedback
    \/ RetrainStart
    \/ RetrainRow
    \/ RetrainSave
    \/ RetrainArchive
    \/ LMConstruct
    \/ LookupCorrection
    \/ NewDocument

SpecLM == InitLM /\ [][NextLM]_vars

(***************************************************************************)
(* TemplateManager.identify_best_template                                  *)
(*                                                                         *)
(* Scores are hundredths.  The partial scores of a template are drawn from *)
(* 0, 0.5 and 1, where the floating-point sums of the code are exact.      *)
(***************************************************************************)
MaxTemplates == 2

text_weight == 60

structural_weight == 40

min_threshold == 40

PartialScores == {0, 50, 100}

TemplateNames == <<"banco_a", "banco_b", "banco_c", "banco_d">>

\* self.templates after load_templates: distinct names, in insertion order.
Catalogs ==
    UNION {[1..n -> [text_score : PartialScores, structural_score : PartialScores]] :
           n \in 0..MaxTemplates}

calculate_template_match_score(template_data) ==
    (template_data.text_score * text_weight
        + template_data.structural_score * structural_weight) \div 100

\* The body of the loop with the comparison reversed to keep the last of equals.
KeepLastBest(current, template_name, score) ==
    IF score >= current.score /\ score > 0
    THEN [selected |-> TRUE, name |-> template_name, score |-> score]
    ELSE current

\* if score > best_score: best_score, best_template = score, template_name
KeepBest(current, template_name, score) ==
    IF score > current.score
    THEN [selected |-> TRUE, name |-> template_name, score |-> score]
    ELSE current

\* The threshold test without the threshold.
AcceptAny(current) == current

\* if best_score >= min_threshold: return best_template ... else: return None
AcceptBest(current) ==
    IF current.score >= min_threshold THEN current ELSE NoTemplate

InitTemplate ==
    /\ store = NoStore
    /\ RetrainerIdle
    /\ lm = [present |-> FALSE, model |-> EmptyModel]
    /\ last_lookup = NoLookup
    /\ version = "v1"
    /\ campos = <<>>
    /\ campos_is_map = TRUE
    /\ full_text = TxEmpty
    /\ DocIdle
    /\ AuxIdle
    /\ ZoiIdle
    /\ templates \in Catalogs
    /\ tm_pc = "start"
    /\ tm_i = 1
    /\ best = NoTemplate
    /\ tm_result = NoTemplate

\* if not self.templates: return None; best_template = None; best_score = 0.0
IdentifyStart ==
    /\ tm_pc = "start"
    /\ tm_pc' = IF templates = <<>> THEN "done" ELSE "loop"
    /\ best' = NoTemplate
    /\ tm_result' = NoTemplate
    /\ UNCHANGED <<templates, tm_i>>
    /\ UNCHANGED <<lmVars, docVars, zoiVars, auxVars>>

\* One iteration of: for template_name, template_data in self.templates.items()
IdentifyEvaluate ==
    /\ tm_pc = "loop"
    /\ tm_i <= Len(templates)
    /\ best' = KeepBest(best, TemplateNames[tm_i],
                        calculate_template_match_score(templates[tm_i]))
    /\ tm_i' = tm_i + 1
    /\ UNCHANGED <<templates, tm_pc, tm_result>>
    /\ UNCHANGED <<lmVars, docVars, zoiVars, auxVars>>

\* After the loop: the threshold test and the return.
IdentifyReturn ==
    /\ tm_pc = "loop"
    /\ tm_i > Len(templates)
    /\ tm_result' = AcceptBest(best)
    /\ tm_pc' = "done"
    /\ UNCHANGED <<templates, tm_i, best>>
    /\ UNCHANGED <<lmVars, docVars, zoiVars, auxVars>>

NextTemplate ==
    \/ IdentifyStart
    \/ IdentifyEvaluate
    \/ IdentifyReturn

SpecTemplate == InitTemplate /\ [][NextTemplate]_vars

(***************************************************************************)
(* TemplateManagerV2: FIELD_DEFINITIONS, find_text_in_roi_flexible and     *)
(* calculate_flexible_zoi                                                  *)
(***************************************************************************)
\* tokens of one list given to calculate_flexible_zoi
MaxTokens == 3

\* the keys of FIELD_DEFINITIONS, in insertion order
FieldOrder ==
    <<"monto", "fecha", "operacion", "identificacion", "origen_numero", "destino_numero",
      "banco_completo", "concepto", "nombre_o_info_completa">>

\* FIELD_DEFINITIONS[field_name]["keywords"]
Keywords(field_name) ==
    CASE field_name = "monto" ->
           <<<<"B", "s">>, <<"M", "o", "n", "t", "o">>, <<"T", "o", "t", "a", "l">>,
             <<"I", "m", "p", "o", "r", "t", "e">>, <<"V", "a", "l", "o", "r">>,
             <<"M", "o", "n", "t", "o", " ", "T", "o", "t", "a", "l">>,
             <<"B", "s", ".", "D">>, <<"b", "o", "l", "i", "v", "a", "r", "e", "s">>>>
      [] field_name = "fecha" ->
           <<<<"F", "e", "c", "h", "a", ":">>, <<"F", "e", "c", "h", "a">>,
             <<"D", "i", "a">>, <<"D", "í", "a">>, <<"D", "a", "t", "e">>,
             <<"F", "e", "c", "h", "a", "s">>>>
      [] field_name = "operacion" ->
           <<<<"O", "p", "e", "r", "a", "c", "i", "ó", "n", ":">>,
             <<"O", "p", "e", "r", "a", "c", "i", "o", "n">>,
             <<"N", "r", "o", " ", "O", "p", "e", "r", "a", "c", "i", "ó", "n">>,
             <<"N", "ú", "m", "e", "r", "o", " ", "O", "p", "e", "r", "a", "c", "i", "ó", "n">>,
             <<"R", "e", "f">>, <<"R", "e", "f", "e", "r", "e", "n", "c", "i", "a">>>>
      [] field_name = "identificacion" ->
           <<<<"I", "d", "e", "n", "t", "i", "f", "i", "c", "a", "c", "i", "ó", "n", ":">>,
             <<"I", "d", "e", "n", "t", "i", "f", "i", "c", "a", "c", "i", "o", "n">>,
             <<"C", ".", "I", ".">>, <<"C", "I">>, <<"C", "é", "d", "u", "l", "a">>,
             <<"C", "e", "d", "u", "l", "a">>, <<"V", "-">>, <<"E", "-">>, <<"J", "-">>>>
      [] field_name = "origen_numero" ->
           <<<<"O", "r", "i", "g", "e", "n", ":">>, <<"O", "r", "i", "g", "e", "n">>,
             <<"T", "e", "l", "e", "f", "o", "n", "o", " ", "O", "r", "i", "g", "e", "n">>,
             <<"C", "t", "a", " ", "O", "r", "i", "g", "e", "n">>,
             <<"C", "u", "e", "n", "t", "a", " ", "O", "r", "i", "g", "e", "n">>>>
      [] field_name = "destino_numero" ->
           <<<<"D", "e", "s", "t", "i", "n", "o", ":">>,
             <<"D", "e", "s", "t", "i", "n", "o">>,
             <<"T", "e", "l", "e", "f", "o", "n", "o", " ", "D", "e", "s", "t", "i", "n", "o">>,
             <<"C", "t", "a", " ", "D", "e", "s", "t", "i", "n", "o">>,
             <<"C", "u", "e", "n", "t", "a", " ", "D", "e", "s", "t", "i", "n", "o">>>>
      [] field_name = "banco_completo" ->
           <<<<"B", "a", "n", "c", "o", ":">>, <<"B", "a", "n", "c", "o">>,
             <<"B", "c", "o">>,
             <<"B", "a", "n", "c", "o", " ", "O", "r", "i", "g", "e", "n">>,
             <<"B", "a", "n", "c", "o", " ", "D", "e", "s", "t", "i", "n", "o">>>>
      [] field_name = "concepto" ->
           <<<<"C", "o", "n", "c", "e", "p", "t", "o", ":">>,
             <<"C", "o", "n", "c", "e", "p", "t", "o">>, <<"D", "e", "s", "c">>,
             <<"D", "e", "s", "c", "r", "i", "p", "c", "i", "ó", "n">>,
             <<"D", "e", "t", "a", "l", "l", "e">>>>
      [] field_name = "nombre_o_info_completa" -> <<>>

\* search_strategy and max_distance_from_keyword of FIELD_DEFINITIONS[field_name]
FieldDef(field_name) ==
    CASE field_name = "monto" ->
           [search_strategy |-> "after_keyword_on_same_line_or_below", x |-> 300, y |-> 100]
      [] field_name = "fecha" ->
           [search_strategy |-> "after_keyword_on_same_line", x |-> 200, y |-> 50]
      [] field_name = "operacion" ->
           [search_strategy |-> "after_keyword_on_same_line", x |-> 350, y |-> 50]
      [] field_name = "identificacion" ->
           [search_strategy |-> "after_keyword_on_same_line", x |-> 200, y |-> 50]
      [] field_name = "origen_numero" ->
           [search_strategy |-> "after_keyword_on_same_line", x |-> 250, y |-> 50]
      [] field_name = "destino_numero" ->
           [search_strategy |-> "after_keyword_on_same_line", x |-> 250, y |-> 50]
      [] field_name = "banco_completo" ->
           [search_strategy |-> "after_keyword_multiword", x |-> 500, y |-> 50]
      [] field_name = "concepto" ->
           [search_strategy |-> "after_keyword_multiword", x |-> 400, y |-> 100]
      [] field_name = "nombre_o_info_completa" ->
           [search_strategy |-> "general_document_scan", x |-> 0, y |-> 0]

\* the characters of the class \u00c0-\u00ff
LatinSupplement ==
    {"À", "Á", "Â", "Ã", "Ä", "Å", "Æ", "Ç", "È", "É", "Ê", "Ë", "Ì", "Í", "Î", "Ï",
     "Ð", "Ñ", "Ò", "Ó", "Ô", "Õ", "Ö", "×", "Ø", "Ù", "Ú", "Û", "Ü", "Ý", "Þ", "ß",
     "à", "á", "â", "ã", "ä", "å", "æ", "ç", "è", "é", "ê", "ë", "ì", "í", "î", "ï",
     "ð", "ñ", "ò", "ó", "ô", "õ", "ö", "÷", "ø", "ù", "ú", "û", "ü", "ý", "þ", "ÿ"}

\* validation_regex of FIELD_DEFINITIONS[field_name], as re.fullmatch decides it
\* ^\d{1,3}(?:[.,]\d{3})*,\d{2}$
GroupedAnySep(s) ==
    /\ Len(s) >= 4
    /\ s[Len(s) - 2] = "," /\ IsDigit(s[Len(s) - 1]) /\ IsDigit(s[Len(s)])
    /\ \E a \in 1..3 :
         LET rest == Len(s) - 3 - a
         IN  /\ rest >= 0 /\ rest % 4 = 0
             /\ AllChars(SubSeq(s, 1, a), IsDigit)
             /\ \A k \in 0..((rest \div 4) - 1) :
                  /\ s[a + 4 * k + 1] \in {".", ","}
                  /\ AllChars(SubSeq(s, a + 4 * k + 2, a + 4 * k + 4), IsDigit)

\* ^\d+(\.\d+)?$
PlainNumber(s) ==
    LET parts == SplitOn(s, ".")
    IN  /\ Len(parts) \in 1..2
        /\ \A k \in 1..Len(parts) : parts[k] # <<>> /\ AllChars(parts[k], IsDigit)

\* ^\d{4}[/-]\d{1,2}[/-]\d{1,2}$
YearFirstDate(s) ==
    \E a \in 1..2 : \E b \in 1..2 :
       /\ Len(s) = 6 + a + b
       /\ AllChars(SubSeq(s, 1, 4), IsDigit)
       /\ s[5] \in {"/", "-"}
       /\ AllChars(SubSeq(s, 6, 5 + a), IsDigit)
       /\ s[6 + a] \in {"/", "-"}
       /\ AllChars(SubSeq(s, 7 + a, Len(s)), IsDigit)

IsUpperOrDigit(c) == c \in UpperLetters \cup Digits

IsMask(c) == c \in {"X", "*"}

\* [A-Za-z\s\d\-]
IsBankChar(c) == c \in UpperLetters \cup LowerLetters \cup Digits \cup {"-"} \/ IsSpace(c)

\* [A-Za-z\s]
IsLetterOrSpace(c) == c \in UpperLetters \cup LowerLetters \/ IsSpace(c)

\* [A-Za-zÀ-ÿ\s]
IsNameChar(c) == c \in UpperLetters \cup LowerLetters \cup LatinSupplement \/ IsSpace(c)

NotNewline(c) == c # "\n"

\* ^\d{4}\s*-\s*[A-Za-z\s]+$
BankCodeAndName(s) ==
    /\ Len(s) >= 6
    /\ AllChars(SubSeq(s, 1, 4), IsDigit)
    /\ LET r == LStrip(SubSeq(s, 5, Len(s)))
       IN  /\ r # <<>> /\ r[1] = "-"
           /\ Tail(r) # <<>> /\ AllChars(Tail(r), IsLetterOrSpace)

ValidationRegex(field_name, s) ==
    CASE field_name = "monto" ->
           GroupedAnySep(s) \/ SimpleAmount(s, {",", "."}) \/ PlainNumber(s)
      [] field_name = "fecha" -> ShortDate(s) \/ YearFirstDate(s)
      [] field_name = "operacion" ->
           DigitRun(s, 8, 20) \/ (Len(s) \in 8..20 /\ AllChars(s, IsUpperOrDigit))
      [] field_name = "identificacion" ->
           \/ s # <<>> /\ s[1] \in {"V", "E", "J"} /\ DigitRun(DropOpt(Tail(s), "-"), 7, 9)
           \/ DigitRun(s, 7, 9)
      [] field_name = "origen_numero" ->
           \/ Len(s) >= 10 /\ AllChars(s, IsDigit)
           \/ /\ Len(s) >= 7
              /\ AllChars(SubSeq(s, 1, Len(s) - 4), IsMask)
              /\ AllChars(SubSeq(s, Len(s) - 3, Len(s)), IsDigit)
      [] field_name = "destino_numero" -> Len(s) >= 10 /\ AllChars(s, IsDigit)
      [] field_name = "banco_completo" ->
           (s # <<>> /\ AllChars(s, IsBankChar)) \/ BankCodeAndName(s)
      [] field_name = "concepto" -> s # <<>> /\ AllChars(s, NotNewline)
      [] field_name = "nombre_o_info_completa" -> Len(s) >= 5 /\ AllChars(s, IsNameChar)

\* the bounding boxes of a and b overlap (the test of find_text_in_roi_flexible)
Intersects(bbox, roi_coords) ==
    /\ bbox.left < roi_coords.left + roi_coords.width
    /\ bbox.left + bbox.width > roi_coords.left
    /\ bbox.top < roi_coords.top + roi_coords.height
    /\ bbox.top + bbox.height > roi_coords.top

\* center_point['y'] of a word, as convert_ocr_data_to_word_list sets it
CenterY(word_data) == word_data.bbox.top + (word_data.bbox.height \div 2)

NoMatch == [text |-> <<>>, sum |-> 0, n |-> 1, bbox |-> [left |-> 0, top |-> 0, width |-> 0, height |-> 0],
            matched_word_indices |-> {}]

\* words_in_roi after the sort by (top, left); Python's sort is stable
SortByPosition(words, in_roi) ==
    LET Before(i, j) ==
            \/ words[i].bbox.top < words[j].bbox.top
            \/ /\ words[i].bbox.top = words[j].bbox.top
               /\ \/ words[i].bbox.left < words[j].bbox.left
                  \/ words[i].bbox.left = words[j].bbox.left /\ i < j
    IN  [r \in 1..Cardinality(in_roi) |->
            CHOOSE i \in in_roi : Cardinality({j \in in_roi : Before(j, i)}) = r - 1]

RECURSIVE JoinWords(_, _, _, _)
\* " ".join of the texts of sorted[a..b]
JoinWords(words, sorted, a, b) ==
    IF a = b THEN words[sorted[a]].text
    ELSE words[sorted[a]].text \o <<" ">> \o JoinWords(words, sorted, a + 1, b)

RECURSIVE SumConf(_, _, _, _)
SumConf(words, sorted, a, b) ==
    words[sorted[a]].confidence + (IF a = b THEN 0 ELSE SumConf(words, sorted, a + 1, b))

\* the combined bounding box of a set of words
CombinedBox(words, idxs) ==
    LET left == CHOOSE v \in {words[i].bbox.left : i \in idxs} :
                    \A i \in idxs : v <= words[i].bbox.left
        top == CHOOSE v \in {words[i].bbox.top : i \in idxs} :
                    \A i \in idxs : v <= words[i].bbox.top
        right == CHOOSE v \in {words[i].bbox.left + words[i].bbox.width : i \in idxs} :
                    \A i \in idxs : v >= words[i].bbox.left + words[i].bbox.width
        bottom == CHOOSE v \in {words[i].bbox.top + words[i].bbox.height : i \in idxs} :
                    \A i \in idxs : v >= words[i].bbox.top + words[i].bbox.height
    IN  [left |-> left, top |-> top, width |-> right - left, height |-> bottom - top]

\* Second pass of find_text_in_roi_flexible over the sorted words of the zone:
\* the slices [start_idx:end_idx] of one to three words on one line whose joined
\* text matches; the best is the first, in loop order, with the highest average.
MultiwordMatch(words, sorted, field_name) ==
    LET n == Len(sorted)
        Slices == {c \in (1..n) \X (1..n) : c[1] <= c[2] /\ c[2] <= c[1] + 2}
        Ys(c) == {CenterY(words[sorted[k]]) : k \in c[1]..c[2]}
        OneLine(c) == \A y1 \in Ys(c) : \A y2 \in Ys(c) : y1 - y2 <= 30
        Good == {c \in Slices :
                    /\ OneLine(c)
                    /\ ValidationRegex(field_name, JoinWords(words, sorted, c[1], c[2]))}
        Size(c) == c[2] - c[1] + 1
        Sum(c) == SumConf(words, sorted, c[1], c[2])
        Higher(c, d) == Sum(c) * Size(d) > Sum(d) * Size(c)
        Earlier(c, d) == c[1] < d[1] \/ (c[1] = d[1] /\ c[2] < d[2])
    IN  IF Good = {} THEN NoMatch
        ELSE LET c == CHOOSE g \in Good :
                          \A d \in Good \ {g} : Higher(g, d) \/ (~Higher(d, g) /\ Earlier(g, d))
                 idxs == {sorted[k] : k \in c[1]..c[2]}
             IN  [text |-> JoinWords(words, sorted, c[1], c[2]),
                  sum |-> Sum(c), n |-> Size(c),
                  bbox |-> CombinedBox(words, idxs),
                  matched_word_indices |-> idxs]

\* First pass: the single word of the zone with the highest confidence, the first
\* one among equals ("conf > best_match_conf")
DirectMatch(words, direct) ==
    LET i == CHOOSE k \in direct :
                 \A j \in direct : \/ words[j].confidence < words[k].confidence
                                   \/ words[j].confidence = words[k].confidence /\ k <= j
    IN  [text |-> Strip(words[i].text), sum |-> words[i].confidence, n |-> 1,
         bbox |-> words[i].bbox, matched_word_indices |-> {i}]

\* find_text_in_roi_flexible, with matched_word_indices kept in the result; the
\* confidence is sum / n
find_text_in_roi_flexible(words, roi_coords, field_name, words_to_exclude, allow_multiword) ==
    LET in_roi == {i \in (1..Len(words)) \ words_to_exclude :
                      Intersects(words[i].bbox, roi_coords) /\ words[i].confidence > 50}
        direct == {i \in in_roi : ValidationRegex(field_name, Strip(words[i].text))}
    IN  IF direct # {} THEN DirectMatch(words, direct)
        ELSE IF allow_multiword
             THEN MultiwordMatch(words, SortByPosition(words, in_roi), field_name)
             ELSE NoMatch

\* any(keyword.lower() in word_data['text'].lower() for keyword in keywords)
HasKeyword(field_name, text) ==
    \E k \in 1..Len(Keywords(field_name)) : Contains(Lower(text), Lower(Keywords(field_name)[k]))

\* The anchor of a field: the first word not yet used, with confidence above 70,
\* whose text holds a keyword of the field; 0 (best_keyword_match = None) without one.
FindAnchor(words, field_name, used) ==
    LET anchors == {i \in (1..Len(words)) \ used :
                       words[i].confidence > 70 /\ HasKeyword(field_name, words[i].text)}
    IN  IF anchors = {} THEN 0 ELSE CHOOSE i \in anchors : \A j \in anchors : i <= j

\* search_zone of a field around its anchor
SearchZone(field_name, anchor_bbox) ==
    LET def == FieldDef(field_name)
        after == def.search_strategy \in {"after_keyword_on_same_line_or_below",
                                          "after_keyword_on_same_line",
                                          "after_keyword_multiword"}
    IN  [left |-> IF after THEN anchor_bbox.left + anchor_bbox.width ELSE anchor_bbox.left,
         top |-> anchor_bbox.top,
         width |-> IF after THEN def.x ELSE def.x + anchor_bbox.width,
         height |-> def.y + anchor_bbox.height]

\* "multiword" in field_def["search_strategy"]
AllowMultiword(field_name) == FieldDef(field_name).search_strategy = "after_keyword_multiword"

\* The marking loop with its body removed: no word of the value is marked.
MarkNoWords(words, used, found_value_bbox) == used

\* "Marcar palabras del valor como usadas": every word whose top-left corner lies
\* in the bounding box of the value
MarkValueWords(words, used, found_value_bbox) ==
    used \cup {i \in 1..Len(words) :
                 /\ words[i].bbox.left >= found_value_bbox.left
                 /\ words[i].bbox.left <= found_value_bbox.left + found_value_bbox.width
                 /\ words[i].bbox.top >= found_value_bbox.top
                 /\ words[i].bbox.top <= found_value_bbox.top + found_value_bbox.height}

ZoiEntry(found, method) ==
    [value |-> found.text, sum |-> found.sum, n |-> found.n, roi |-> found.bbox,
     extraction_method |-> method]

LogEntry(field_name, phase, anchor, value_words) ==
    [field |-> field_name, phase |-> phase, anchor |-> anchor, value_words |-> value_words]

(***************************************************************************)
(* Token lists                                                             *)
(***************************************************************************)
TxMonto == <<"M", "o", "n", "t", "o">>

TxRefWord == <<"R", "e", "f">>

TxBanco == <<"B", "a", "n", "c", "o">>

TxMaria == <<"M", "a", "r", "i", "a">>

TokenKinds ==
    {[text |-> TxMonto, confidence |-> 90], [text |-> TxMonto, confidence |-> 80],
     [text |-> TxRefWord, confidence |-> 90], [text |-> TxBanco, confidence |-> 90],
     [text |-> TxRef, confidence |-> 90], [text |-> TxAmount, confidence |-> 90],
     [text |-> TxMaria, confidence |-> 60]}

Layouts == {"line", "line_reversed", "staggered"}

\* The bounding box of the i-th of n words: one line from left to right, one line
\* from right to left, or two lines with words 2 and 3 one above the other.
BoxAt(layout, i, n) ==
    [left |-> CASE layout = "line" -> 100 * (i - 1)
                [] layout = "line_reversed" -> 100 * (n - i)
                [] layout = "staggered" -> 100 * (i \div 2),
     top |-> IF layout = "staggered" THEN 40 * ((i - 1) % 2) ELSE 0,
     width |-> 80,
     height |-> 20]

TokenLists ==
    UNION {{[i \in 1..n |-> [text |-> kinds[i].text, confidence |-> kinds[i].confidence,
                             bbox |-> BoxAt(layout, i, n)]] :
              kinds \in [1..n -> TokenKinds], layout \in Layouts} : n \in 0..MaxTokens}

(***************************************************************************)
(* calculate_flexible_zoi, one field of one phase at a time                *)
(***************************************************************************)
InitZoi ==
    /\ store = NoStore
    /\ RetrainerIdle
    /\ lm = [present |-> FALSE, model |-> EmptyModel]
    /\ last_lookup = NoLookup
    /\ version = "v2"
    /\ campos = <<>>
    /\ campos_is_map = TRUE
    /\ full_text = TxEmpty
    /\ DocIdle
    /\ AuxIdle
    /\ TMIdle
    /\ all_ocr_words \in TokenLists
    /\ zoi_pc = "A"
    /\ zoi_k = 1
    /\ words_used = {}
    /\ extracted_fields_zoi = EmptyModel
    /\ zoi_log = <<>>

ZoiAdvance ==
    IF zoi_k < Len(FieldOrder)
    THEN /\ zoi_k' = zoi_k + 1
         /\ zoi_pc' = zoi_pc
    ELSE /\ zoi_k' = 1
         /\ zoi_pc' = IF zoi_pc = "A" THEN "B" ELSE "return"

\* AnchoredWith, but the anchor is marked as used only together with a value.
AnchoredWithLateMark(field_name, anchor, found) ==
    IF found.text # <<>>
    THEN /\ extracted_fields_zoi' =
                Put(extracted_fields_zoi, field_name, ZoiEntry(found, "keyword_anchored"))
         /\ words_used' = MarkValueWords(all_ocr_words, words_used \cup {anchor}, found.bbox)
         /\ zoi_log' = Append(zoi_log, LogEntry(field_name, "A", anchor,
                                                 found.matched_word_indices))
    ELSE /\ extracted_fields_zoi' = extracted_fields_zoi
         /\ words_used' = words_used
         /\ zoi_log' = Append(zoi_log, LogEntry(field_name, "A", anchor, {}))

\* The anchored field after the search for its value.
AnchoredWith(field_name, anchor, found) ==
    IF found.text # <<>>
    THEN /\ extracted_fields_zoi' =
                Put(extracted_fields_zoi, field_name, ZoiEntry(found, "keyword_anchored"))
         /\ words_used' = MarkValueWords(all_ocr_words, words_used \cup {anchor}, found.bbox)
         /\ zoi_log' = Append(zoi_log, LogEntry(field_name, "A", anchor,
                                                 found.matched_word_indices))
    ELSE /\ extracted_fields_zoi' = extracted_fields_zoi
         /\ words_used' = words_used \cup {anchor}
         /\ zoi_log' = Append(zoi_log, LogEntry(field_name, "A", anchor, {}))

AnchoredFrom(field_name, anchor) ==
    IF anchor = 0
    THEN UNCHANGED <<extracted_fields_zoi, words_used, zoi_log>>
    ELSE AnchoredWith(field_name, anchor,
             find_text_in_roi_flexible(all_ocr_words,
                                       SearchZone(field_name, all_ocr_words[anchor].bbox),
                                       field_name, words_used \cup {anchor},
                                       AllowMultiword(field_name)))

\* Phase A, a field without keywords: continue
ZoiSkipAnchored ==
    /\ zoi_pc = "A"
    /\ Keywords(FieldOrder[zoi_k]) = <<>>
    /\ ZoiAdvance
    /\ UNCHANGED <<all_ocr_words, words_used, extracted_fields_zoi, zoi_log>>
    /\ UNCHANGED <<lmVars, docVars, tmVars, auxVars>>

\* Phase A, a field with keywords: anchor, search zone, value, marking
ZoiAnchored ==
    /\ zoi_pc = "A"
    /\ Keywords(FieldOrder[zoi_k]) # <<>>
    /\ AnchoredFrom(FieldOrder[zoi_k],
                    FindAnchor(all_ocr_words, FieldOrder[zoi_k], words_used))
    /\ ZoiAdvance
    /\ UNCHANGED all_ocr_words
    /\ UNCHANGED <<lmVars, docVars, tmVars, auxVars>>

\* Phase B, a field already extracted or with keywords: continue
ZoiSkipGeneral ==
    /\ zoi_pc = "B"
    /\ \/ FieldOrder[zoi_k] \in DOMAIN extracted_fields_zoi
       \/ Keywords(FieldOrder[zoi_k]) # <<>>
    /\ ZoiAdvance
    /\ UNCHANGED <<all_ocr_words, words_used, extracted_fields_zoi, zoi_log>>
    /\ UNCHANGED <<lmVars, docVars, tmVars, auxVars>>

GeneralWith(field_name, hits) ==
    IF hits = {}
    THEN UNCHANGED <<extracted_fields_zoi, words_used, zoi_log>>
    ELSE LET i == CHOOSE k \in hits : \A j \in hits : k <= j
         IN  /\ extracted_fields_zoi' =
                    Put(extracted_fields_zoi, field_name,
                        ZoiEntry([text |-> Strip(all_ocr_words[i].text),
                                  sum |-> all_ocr_words[i].confidence, n |-> 1,
                                  bbox |-> all_ocr_words[i].bbox], "general_scan"))
             /\ words_used' = words_used \cup {i}
             /\ zoi_log' = Append(zoi_log, LogEntry(field_name, "B", 0, {i}))

\* Phase B, a field without keywords: the first unused word with confidence of at
\* least 60 that matches the field's pattern
ZoiGeneral ==
    /\ zoi_pc = "B"
    /\ FieldOrder[zoi_k] \notin DOMAIN extracted_fields_zoi
    /\ Keywords(FieldOrder[zoi_k]) = <<>>
    /\ GeneralWith(FieldOrder[zoi_k],
                   {i \in (1..Len(all_ocr_words)) \ words_used :
                       /\ ~(all_ocr_words[i].confidence < 60)
                       /\ ValidationRegex(FieldOrder[zoi_k], Strip(all_ocr_words[i].text))})
    /\ ZoiAdvance
    /\ UNCHANGED all_ocr_words
    /\ UNCHANGED <<lmVars, docVars, tmVars, auxVars>>

\* "Preparar resultado final": the result is returned
ZoiReturn ==
    /\ zoi_pc = "return"
    /\ zoi_pc' = "done"
    /\ UNCHANGED <<all_ocr_words, zoi_k, words_used, extracted_fields_zoi, zoi_log>>
    /\ UNCHANGED <<lmVars, docVars, tmVars, auxVars>>

NextZoi ==
    \/ ZoiSkipAnchored
    \/ ZoiAnchored
    \/ ZoiSkipGeneral
    \/ ZoiGeneral
    \/ ZoiReturn

SpecZoi == InitZoi /\ [][NextZoi]_vars

(***************************************************************************)
(* The entry points: main.py (main, process_receipt) and main_v2.py (main, *)
(* process_image_v2)                                                       *)
(***************************************************************************)
\* every part of the pipeline outside the entry points, at rest
PipelineIdle ==
    /\ store = NoStore
    /\ RetrainerIdle
    /\ lm = [present |-> FALSE, model |-> EmptyModel]
    /\ last_lookup = NoLookup
    /\ version = "v1"
    /\ campos = <<>>
    /\ campos_is_map = TRUE
    /\ full_text = TxEmpty
    /\ DocIdle
    /\ TMIdle
    /\ ZoiIdle

\* what can fail in an invocation: nothing, the set-up of directories and logging,
\* the creation of the temporary directory, a collaborator called inside the try
FailPoints(program) ==
    IF program = "main.py" THEN {"none", "setup", "temp_dir", "stage"}
    ELSE {"none", "temp_dir", "stage"}

\* what the extraction delivers when nothing fails: extract_fields with or without
\* a successful field, extract_data_v2 with one of its statuses, with its early
\* return ("absent": no 'status' key) or with its own error status
Outcomes(program) ==
    IF program = "main.py" THEN {"some_successful", "none_successful"}
    ELSE {"success", "low_confidence", "validation_failed", "no_data_extracted", "absent",
          "extraction_error"}

Invocations ==
    UNION {[program : {p}, argc_ok : BOOLEAN, exists : BOOLEAN, suffix_ok : BOOLEAN,
            fail : FailPoints(p), outcome : Outcomes(p)] : p \in {"main.py", "main_v2.py"}}

InitEntry ==
    /\ PipelineIdle
    /\ LateIdle
    /\ IoIdle
    /\ PaIdle
    /\ ep_input \in Invocations
    /\ ep_pc = "main"
    /\ ep_result = NoResult
    /\ ep_exit = "none"

EndWith(code) ==
    /\ ep_exit' = code
    /\ ep_pc' = "ended"

\* main() of main.py up to the call of process_receipt
MainV1 ==
    /\ ep_pc = "main"
    /\ ep_input.program = "main.py"
    /\ IF ~ep_input.argc_ok THEN EndWith("exit_1")
       ELSE IF ep_input.fail = "setup" THEN EndWith("exception")
       ELSE ep_pc' = "process_receipt" /\ UNCHANGED ep_exit
    /\ UNCHANGED <<ep_input, ep_result>>
    /\ UNCHANGED <<pipelineVars, ioVars, paVars, lateVars>>

ReceiptResult(outcome) ==
    [present |-> TRUE, status |-> "absent",
     final_status |-> IF outcome = "some_successful" THEN "extraction_successful"
                      ELSE "extraction_failed",
     has_error |-> FALSE]

ReceiptError ==
    [present |-> TRUE, status |-> "absent", final_status |-> "processing_error", has_error |-> TRUE]

\* process_receipt: the two steps before the try raise into main(), which has no
\* handler
ProcessReceipt ==
    /\ ep_pc = "process_receipt"
    /\ IF ~ep_input.exists \/ ep_input.fail = "temp_dir"
       THEN EndWith("exception") /\ UNCHANGED ep_result
       ELSE /\ ep_result' = IF ep_input.fail = "stage" THEN ReceiptError
                            ELSE ReceiptResult(ep_input.outcome)
            /\ ep_pc' = "print_summary"
            /\ UNCHANGED ep_exit
    /\ UNCHANGED ep_input
    /\ UNCHANGED <<pipelineVars, ioVars, paVars, lateVars>>

\* print_summary(result) and sys.exit(0 if result["success"] else 1)
MainV1Exit ==
    /\ ep_pc = "print_summary"
    /\ EndWith(IF ep_result.final_status = "extraction_successful" THEN "exit_0" ELSE "exit_1")
    /\ UNCHANGED <<ep_input, ep_result>>
    /\ UNCHANGED <<pipelineVars, ioVars, paVars, lateVars>>

\* main() of main_v2.py up to the call of process_image_v2
MainV2 ==
    /\ ep_pc = "main"
    /\ ep_input.program = "main_v2.py"
    /\ IF ~ep_input.argc_ok \/ ~ep_input.exists \/ ~ep_input.suffix_ok
       THEN EndWith("exit_1")
       ELSE ep_pc' = "process_image_v2" /\ UNCHANGED ep_exit
    /\ UNCHANGED <<ep_input, ep_result>>
    /\ UNCHANGED <<pipelineVars, ioVars, paVars, lateVars>>

\* processing_result after "processing_result.update(extraction_result)" and the
\* update with 'final_status'
ImageV2Result(outcome) ==
    [present |-> TRUE,
     status |-> IF outcome = "absent" THEN "processing" ELSE outcome,
     final_status |-> IF outcome = "absent" THEN "processing" ELSE outcome,
     has_error |-> outcome \in {"absent", "extraction_error"}]

\* processing_result after the handler of process_image_v2
ImageV2Error ==
    [present |-> TRUE, status |-> "error", final_status |-> "absent", has_error |-> TRUE]

\* process_image_v2: setup_temp_directory is called before the try and re-raises
\* into main(), whose handler logs and exits
ProcessImageV2 ==
    /\ ep_pc = "process_image_v2"
    /\ IF ep_input.fail = "temp_dir"
       THEN EndWith("exit_1") /\ UNCHANGED ep_result
       ELSE /\ ep_result' = IF ep_input.fail = "stage" THEN ImageV2Error
                            ELSE ImageV2Result(ep_input.outcome)
            /\ ep_pc' = "summary_v2"
            /\ UNCHANGED ep_exit
    /\ UNCHANGED ep_input
    /\ UNCHANGED <<pipelineVars, ioVars, paVars, lateVars>>

\* the summary of main() of main_v2.py and the exit code
MainV2Exit ==
    /\ ep_pc = "summary_v2"
    /\ EndWith(IF ep_result.final_status = "success" THEN "exit_0"
               ELSE IF ep_result.final_status \in {"low_confidence", "validation_failed"}
               THEN "exit_2"
               ELSE "exit_1")
    /\ UNCHANGED <<ep_input, ep_result>>
    /\ UNCHANGED <<pipelineVars, ioVars, paVars, lateVars>>

NextEntry ==
    \/ MainV1
    \/ ProcessReceipt
    \/ MainV1Exit
    \/ MainV2
    \/ ProcessImageV2
    \/ MainV2Exit

SpecEntry == InitEntry /\ [][NextEntry]_vars

(***************************************************************************)
(* The store file under a writer and a reader in another process:          *)
(* LearningManager.save_probabilistic_model and load_probabilistic_model    *)
(***************************************************************************)
\* the models the writer starts from: the empty one and retrained ones
WriterModels == {EmptyModel} \cup { FoldAll(EmptyModel, <<row>>) : row \in FeedbackRows }

InitStore ==
    /\ PipelineIdle
    /\ LateIdle
    /\ EpIdle
    /\ PaIdle
    /\ sv_model \in WriterModels
    /\ sv_file = [state |-> "complete", model |-> sv_model]
    /\ sv_saved = sv_model
    /\ sv_pc = "idle"
    /\ sv_folds = 0
    /\ rd = NoRead

\* the writer changes its model in memory: one row of process_feedback_entries
WriterFold ==
    /\ sv_pc = "idle"
    /\ sv_folds < MaxFeedback
    /\ \E row \in FeedbackRows : sv_model' = FoldEntry(sv_model, row)
    /\ sv_folds' = sv_folds + 1
    /\ UNCHANGED <<sv_file, sv_pc, sv_saved, rd>>
    /\ UNCHANGED <<pipelineVars, epVars, paVars, lateVars>>

\* "open(config.PROBABILISTIC_MODEL_PATH, 'w')": the file is truncated
SaveOpen ==
    /\ sv_pc = "idle"
    /\ sv_file' = [state |-> "truncated", model |-> EmptyModel]
    /\ sv_pc' = "dump"
    /\ UNCHANGED <<sv_model, sv_folds, sv_saved, rd>>
    /\ UNCHANGED <<pipelineVars, epVars, paVars, lateVars>>

\* json.dump has written a part of the text to the file
SaveFlush ==
    /\ sv_pc = "dump"
    /\ sv_file.state = "truncated"
    /\ sv_file' = [state |-> "partial", model |-> EmptyModel]
    /\ UNCHANGED <<sv_pc, sv_model, sv_folds, sv_saved, rd>>
    /\ UNCHANGED <<pipelineVars, epVars, paVars, lateVars>>

\* the end of the with block: the whole text is in the file
SaveClose ==
    /\ sv_pc = "dump"
    /\ sv_file' = [state |-> "complete", model |-> sv_model]
    /\ sv_saved' = sv_model
    /\ sv_pc' = "idle"
    /\ UNCHANGED <<sv_model, sv_folds, rd>>
    /\ UNCHANGED <<pipelineVars, epVars, paVars, lateVars>>

\* load_probabilistic_model of a LearningManager in another process: json.load
\* raises on an empty or incomplete text and the handler sets the empty model
LoadStore ==
    /\ rd' = [done |-> TRUE,
              model |-> IF sv_file.state = "complete" THEN sv_file.model ELSE EmptyModel,
              failed |-> sv_file.state # "complete",
              previous |-> sv_saved,
              new |-> IF sv_pc = "dump" THEN sv_model ELSE sv_saved,
              during_save |-> sv_pc = "dump"]
    /\ UNCHANGED <<sv_file, sv_pc, sv_model, sv_folds, sv_saved>>
    /\ UNCHANGED <<pipelineVars, epVars, paVars, lateVars>>

NextStore ==
    \/ WriterFold
    \/ SaveOpen
    \/ SaveFlush
    \/ SaveClose
    \/ LoadStore

SpecStore == InitStore /\ [][NextStore]_vars

(***************************************************************************)
(* The amount parsers: the amount branch of validate_field_value and the   *)
(* normalisation of FieldExtractor.validate_and_extract_field              *)
(***************************************************************************)
MaxAmountLen == 4

AmountAlphabet == {"1", "2", ",", ".", "B"}

TxGroupedComma == <<"1", ".", "2", "3", "4", ",", "5", "6">>

TxGroupedDot == <<"1", ",", "2", "3", "4", ".", "5", "6">>

TxThousands == <<"1", "2", "3", ",", "4", "5", "6">>

\* short texts with at most one comma, and the amounts "1.234,56", "1,234.56",
\* "123,45" and "123,456"
AmountTexts ==
    {TxGroupedComma, TxGroupedDot, TxAmount, TxThousands}
        \cup { t \in UNION {[1..n -> AmountAlphabet] : n \in 1..MaxAmountLen} :
                  CountChars(t, IsComma) <= 1 }

InitAmount ==
    /\ PipelineIdle
    /\ LateIdle
    /\ EpIdle
    /\ IoIdle
    /\ pa_text \in AmountTexts
    /\ pa_out = NoParse

\* validate_and_extract_field, field "monto": the string handed to float()
FieldExtractorAmount(match) ==
    LET normalized == SelectSeq(match, IsAmountChar)
    IN  IF CountChars(normalized, IsComma) > 0 /\ CountChars(normalized, IsDot) > 0
        THEN SelectSeq(normalized, NotComma)
        ELSE IF CountChars(normalized, IsComma) > 0
        THEN ReplaceChar(normalized, ",", ".")
        ELSE normalized

Parsed(parser, amount) == [done |-> TRUE, parser |-> parser, amount |-> amount]

\* the amount branch of DataExtractor.validate_field_value (the same in
\* DataExtractorV2)
ParseDataExtractor ==
    /\ ~pa_out.done
    /\ pa_out' = Parsed("data_extractor", AmountStr(SelectSeq(Strip(pa_text), IsAmountChar)))
    /\ UNCHANGED pa_text
    /\ UNCHANGED <<pipelineVars, epVars, ioVars, lateVars>>

\* the amount branch of FieldExtractor.validate_and_extract_field
ParseFieldExtractor ==
    /\ ~pa_out.done
    /\ pa_out' = Parsed("field_extractor", FieldExtractorAmount(pa_text))
    /\ UNCHANGED pa_text
    /\ UNCHANGED <<pipelineVars, epVars, ioVars, lateVars>>

NextAmount ==
    \/ ParseDataExtractor
    \/ ParseFieldExtractor

SpecAmount == InitAmount /\ [][NextAmount]_vars

(***************************************************************************)
(* Properties of the extraction                                            *)
(***************************************************************************)
Returned == pc = "done"

\* a document with a non-empty, well-formed field set, after the function returned
ExtractedDocument == Returned /\ campos # <<>> /\ campos_is_map

SuccessfulFields == { f \in DOMAIN campos_extraidos : campos_extraidos[f].extraction_successful }

RECURSIVE ConfidenceSum(_)
ConfidenceSum(fields) ==
    IF fields = {} THEN 0
    ELSE LET f == CHOOSE g \in fields : TRUE
         IN  campos_extraidos[f].confidence + ConfidenceSum(fields \ {f})

\* a cross-validated field has a value that its validator rejects
CrossValidationFails ==
    \E f \in CrossFields(version) \cap DOMAIN campos_extraidos :
        /\ campos_extraidos[f].value # <<>>
        /\ ~Validate(version, f, campos_extraidos[f].value)

OverallBelowFifty == ConfidenceSum(SuccessfulFields) < Conf(50) * Cardinality(SuccessfulFields)

\* C1: for a document with a non-empty field set the returned status is
\* no_data_extracted when no field was extracted successfully, otherwise
\* validation_failed when a cross-validated field fails its validator, otherwise
\* low_confidence when the mean confidence of the successful fields is below 50,
\* otherwise success.
C1_StatusPriority ==
    ExtractedDocument =>
        status = IF SuccessfulFields = {} THEN "no_data_extracted"
                 ELSE IF CrossValidationFails THEN "validation_failed"
                 ELSE IF OverallBelowFifty THEN "low_confidence"
                 ELSE "success"

\* a returned document whose validation fails and whose confidence is below 50
\* as well: the higher priority decided
C1_Witness ==
    /\ ExtractedDocument
    /\ SuccessfulFields # {}
    /\ CrossValidationFails
    /\ OverallBelowFifty
    /\ status = "validation_failed"

StatusValues == {"success", "low_confidence", "validation_failed", "no_data_extracted"}

\* C2: every returned result carries a status, one of success, low_confidence,
\* validation_failed and no_data_extracted.
C2_StatusAlwaysSet == Returned => status \in StatusValues

\* C3: a field stored with extraction_successful has a non-empty value that
\* passes the validator of the field.
C3_SuccessfulIsValidated ==
    \A f \in DOMAIN campos_extraidos :
        campos_extraidos[f].extraction_successful =>
            /\ campos_extraidos[f].value # <<>>
            /\ Validate(version, f, campos_extraidos[f].value)

\* C4: the confidence stored for every field lies in [0, 100].
C4_ConfidenceInRange ==
    \A f \in DOMAIN campos_extraidos :
        /\ campos_extraidos[f].confidence >= 0
        /\ campos_extraidos[f].confidence <= Conf(100)

\* a field whose lookup found an entry and whose confidence plus the entry's
\* adjustment fell below 0
C4_Witness ==
    \E f \in DOMAIN campos_extraidos \cap DOMAIN lookups :
        /\ f \in DOMAIN lm.model
        /\ lookups[f].key \in DOMAIN lm.model[f]
        /\ campos_extraidos[f].enhanced_output = lookups[f].key
        /\ campos_extraidos[f].value # lookups[f].key
        /\ campos_extraidos[f].confidence = 0

\* C11: the overall confidence of a returned document is the arithmetic mean of
\* the confidences of exactly the fields stored with extraction_successful, and
\* 0 when no field is.
C11_OverallIsMeanOfSuccessful ==
    Returned =>
        IF SuccessfulFields = {}
        THEN overall_confidence[1] = 0
        ELSE /\ overall_confidence[2] > 0
             /\ overall_confidence[1] * Cardinality(SuccessfulFields)
                    = ConfidenceSum(SuccessfulFields) * overall_confidence[2]

\* a returned document with a successful field of positive confidence and a
\* stored field that is not successful
C11_Witness ==
    /\ Returned
    /\ \E f \in SuccessfulFields : campos_extraidos[f].confidence > 0
    /\ \E f \in DOMAIN campos_extraidos : ~campos_extraidos[f].extraction_successful
    /\ overall_confidence[1] > 0

\* the cross-validated fields of the returned document whose final value is not empty
RequiredWithValue ==
    { f \in CrossFields(version) \cap DOMAIN campos_extraidos : campos_extraidos[f].value # <<>> }

\* C12: cross_validation_passed is true exactly when every cross-validated field
\* with a non-empty final value passes the validator of the field; a
\* cross-validated field that is empty or missing never makes it false.
C12_CrossValidationIffAllValid ==
    ExtractedDocument =>
        /\ validation_results.present
        /\ validation_results.cross_validation_passed
              = (\A f \in RequiredWithValue : Validate(version, f, campos_extraidos[f].value))

\* a returned document with a cross-validated field stored empty, another one
\* missing and a third one valid, where the cross validation passed
C12_Witness ==
    /\ ExtractedDocument
    /\ \E f \in CrossFields(version) \cap DOMAIN campos_extraidos : campos_extraidos[f].value = <<>>
    /\ CrossFields(version) \ DOMAIN campos_extraidos # {}
    /\ RequiredWithValue # {}
    /\ validation_results.cross_validation_passed

\* the fields of the field map that the loop has gone through
ProcessedFields ==
    IF campos_is_map /\ pc \in {"fields", "done"} THEN 1..(Min(idx, Len(campos) + 1) - 1) ELSE {}

\* C13: a field whose processing raised an error is recorded with value "",
\* confidence 0 and the error, and the document still receives its validation
\* result and its status.
C13_FieldErrorIsRecorded ==
    /\ \A k \in ProcessedFields :
          campos[k].kind = "malformed" =>
              /\ campos[k].name \in DOMAIN campos_extraidos
              /\ campos_extraidos[campos[k].name].value = <<>>
              /\ campos_extraidos[campos[k].name].confidence = 0
              /\ campos_extraidos[campos[k].name].has_error
              /\ ~campos_extraidos[campos[k].name].extraction_successful
    /\ ExtractedDocument => validation_results.present /\ status \in StatusValues

\* C14: every field the loop went through without extracting it is stored with
\* extraction_successful false and a reason; none is absent from the result.
C14_FailedFieldHasEntry ==
    \A k \in ProcessedFields :
        /\ campos[k].name \in DOMAIN campos_extraidos
        /\ ~campos_extraidos[campos[k].name].extraction_successful
              => campos_extraidos[campos[k].name].has_error

\* C8: no step of the extraction, the construction of the LearningManager
\* included, changes the persisted store, and no step after the construction
\* changes the model in memory.
C8_ExtractionNeverWrites ==
    [][store' = store /\ (lm.present => lm' = lm)]_vars

\* C9: the key of every correction lookup is the string the result reports as
\* the raw_ocr_output of the field.
C9_LookupKeyIsRawOcr ==
    \A f \in DOMAIN lookups :
        f \in DOMAIN campos_extraidos => lookups[f].key = campos_extraidos[f].raw_ocr_output

(***************************************************************************)
(* Properties of the entry points                                          *)
(***************************************************************************)
InvocationEnded == ep_input.program # "none" /\ ep_pc = "ended"

\* the image path is missing or something the invocation relies on failed
InvocationFails ==
    ~ep_input.argc_ok \/ ~ep_input.exists \/ ep_input.fail # "none"

\* C15: every invocation of an entry point ends with a result object, which
\* states the reason when the invocation failed, and none ends with an uncaught
\* exception.
C15_InvocationEndsWithResult ==
    InvocationEnded =>
        /\ ep_exit # "exception"
        /\ ep_result.present
        /\ InvocationFails => ep_result.has_error

(***************************************************************************)
(* Properties of the correction lookup                                     *)
(***************************************************************************)
LookupHit ==
    /\ last_lookup.done
    /\ last_lookup.field \in DOMAIN last_lookup.model
    /\ last_lookup.raw \in DOMAIN last_lookup.model[last_lookup.field]

LookupEntry == last_lookup.model[last_lookup.field][last_lookup.raw]

Clamped(c) == IF c < 0 THEN 0 ELSE IF c > Conf(100) THEN Conf(100) ELSE c

\* C6: when the model holds an entry for (field_name, raw_text) the lookup
\* returns the recorded correction with the highest count, the first inserted
\* among those with that count, and the confidence plus the entry's adjustment
\* clamped to [0, 100].
C6_HighestCountFirstInserted ==
    LookupHit =>
        /\ \E k \in 1..Len(LookupEntry.corrections) :
              /\ last_lookup.text = LookupEntry.corrections[k].value
              /\ \A n \in 1..Len(LookupEntry.corrections) :
                    LookupEntry.corrections[n].count <= LookupEntry.corrections[k].count
              /\ \A n \in 1..(k - 1) :
                    LookupEntry.corrections[n].count < LookupEntry.corrections[k].count
        /\ last_lookup.result = Clamped(last_lookup.confidence + LookupEntry.confidence_adjustment)

\* a hit on an entry with two corrections of the same count
C6_Witness ==
    /\ LookupHit
    /\ Len(LookupEntry.corrections) = 2
    /\ LookupEntry.corrections[1].count = LookupEntry.corrections[2].count
    /\ last_lookup.text = LookupEntry.corrections[1].value

\* C7: when field_name is absent from the model, or raw_text absent under it,
\* the lookup returns raw_text and the confidence unchanged, whatever they are.
C7_MissIsNoOp ==
    (last_lookup.done /\ ~LookupHit) =>
        /\ last_lookup.text = last_lookup.raw
        /\ last_lookup.result = last_lookup.confidence

\* a miss under a field the model knows, with a confidence above 100
C7_Witness ==
    /\ last_lookup.done
    /\ last_lookup.field \in DOMAIN last_lookup.model
    /\ last_lookup.raw \notin DOMAIN last_lookup.model[last_lookup.field]
    /\ last_lookup.confidence > Conf(100)
    /\ last_lookup.result = last_lookup.confidence


(***************************************************************************)
(* Properties of the retrainer                                             *)
(***************************************************************************)
HasOcrEntry(model, row) ==
    row.field \in DOMAIN model /\ row.raw \in DOMAIN model[row.field]

\* the count the model holds for the correction of the row, 0 when it has none
CountOf(model, row) ==
    IF HasOcrEntry(model, row)
          /\ CorrectionIndex(model[row.field][row.raw].corrections, row.corrected) # 0
    THEN LET cs == model[row.field][row.raw].corrections
         IN  cs[CorrectionIndex(cs, row.corrected)].count
    ELSE 0

\* the count of the root cause of the row under its correction, 0 when it has none
CauseCountOf(model, row) ==
    IF CountOf(model, row) > 0
    THEN LET cs == model[row.field][row.raw].corrections
             c == cs[CorrectionIndex(cs, row.corrected)]
         IN  IF row.cause \in DOMAIN c.causas THEN c.causas[row.cause] ELSE 0
    ELSE 0

\* the confidence_adjustment of the entry of the row, 0 when it has none
AdjustmentOf(model, row) ==
    IF HasOcrEntry(model, row) THEN model[row.field][row.raw].confidence_adjustment ELSE 0

Between(x, a, b) == Min(a, b) <= x /\ x <= Max(a, b)

\* the row folded twice into the model keeps the claim of C16
TwiceWith(row, m0, m1, m2, delta) ==
    /\ CountOf(m2, row) = CountOf(m0, row) + 2
    /\ Between(AdjustmentOf(m1, row), AdjustmentOf(m0, row), delta)
    /\ Between(AdjustmentOf(m2, row), AdjustmentOf(m1, row), delta)

FoldedTwice(row, m0, m1) ==
    TwiceWith(row, m0, m1, FoldEntry(m1, row), calculate_confidence_adjustment(row.cause))

FoldsRow(row, before, after) ==
    /\ CountOf(after, row) = CountOf(before, row) + 1
    /\ CauseCountOf(after, row) = CauseCountOf(before, row) + 1
    /\ AdjustmentOf(after, row)
          = (AdjustmentOf(before, row) + calculate_confidence_adjustment(row.cause)) \div 2

\* C17: every step of the retrainer's loop, whatever the field, the corrected
\* value and the root cause of the row it processes, adds one to the count of
\* the correction, one to the count of the root cause under it, and replaces the
\* confidence adjustment of the entry by (old + delta) / 2, delta being the
\* table value of the root cause.
C17_OnePassFoldsEntry ==
    [][(rt_pc = "process" /\ rt_i' = rt_i + 1) => FoldsRow(rt_df[rt_i], rt_model, rt_model')]_vars

\* the pending log only grew in the step
LogGrows ==
    /\ Len(feedback_csv'.rows) >= Len(feedback_csv.rows)
    /\ SubSeq(feedback_csv'.rows, 1, Len(feedback_csv.rows)) = feedback_csv.rows

\* the step moved the pending log to the archive
ArchiveStep == rt_pc = "archive" /\ rt_pc' = "idle"

\* C18: rows leave the pending log only in the archiving step of a retrainer
\* run, and the rows that step moves to the archive are the rows the run has
\* folded into the model, no other row and none missing.
C18_ArchivedOnlyOnceFolded ==
    [][/\ ~ArchiveStep => LogGrows
       /\ ArchiveStep => /\ archive' = Append(archive, feedback_csv.rows)
                          /\ feedback_csv.rows = rt_df]_vars

(***************************************************************************)
(* Properties of the store file                                            *)
(***************************************************************************)
\* C19: a load of the store, also one made while a save is under way, obtains
\* the complete model of the last completed save or the complete model being
\* saved, never an empty or partial one.
C19_LoadSeesPreviousOrNew ==
    rd.done => rd.model \in {rd.previous, rd.new}

(***************************************************************************)
(* Properties of the amount parsers                                        *)
(***************************************************************************)
\* the rule of C20 on a text with at most one comma when it has no dot: with both
\* separators the rightmost kind becomes the decimal point and the other kind is
\* removed; a lone comma becomes the decimal point when exactly two characters
\* follow it and is removed otherwise
RightmostIsDecimal(cleaned) ==
    LET comma == RFind(cleaned, ",")
        dot == RFind(cleaned, ".")
    IN  IF comma > 0 /\ dot > 0
        THEN IF comma > dot
             THEN [i \in 1..Len(SelectSeq(cleaned, NotDot)) |->
                     IF SelectSeq(cleaned, NotDot)[i] = "," THEN "." ELSE SelectSeq(cleaned, NotDot)[i]]
             ELSE SelectSeq(cleaned, NotComma)
        ELSE IF comma > 0
        THEN IF comma = Len(cleaned) - 2
             THEN [cleaned EXCEPT ![comma] = "."]
             ELSE SelectSeq(cleaned, NotComma)
        ELSE cleaned

DataExtractorFollowsRule ==
    (pa_out.done /\ pa_out.parser = "data_extractor") =>
        pa_out.amount = RightmostIsDecimal(SelectSeq(pa_text, IsAmountChar))

(***************************************************************************)
(* Properties of the template selection                                    *)
(***************************************************************************)
ScoreAt(k) == calculate_template_match_score(templates[k])

HighestScore ==
    LET scores == {0} \cup {ScoreAt(k) : k \in 1..Len(templates)}
    IN  CHOOSE m \in scores : \A n \in scores : n <= m

FirstWithHighest ==
    CHOOSE k \in 1..Len(templates) :
        /\ ScoreAt(k) = HighestScore
        /\ \A j \in 1..(k - 1) : ScoreAt(j) < HighestScore

\* C10: identify_best_template returns a template exactly when the highest
\* weighted score of the catalog is at least 0.4; the template returned is the
\* first one in catalog order that has the highest score, and its score is
\* returned with it.  Below the threshold, and for an empty catalog, nothing is
\* returned.
C10_BestTemplateFirstOfHighest ==
    tm_pc = "done" =>
        IF templates # <<>> /\ HighestScore >= min_threshold
        THEN /\ tm_result.selected
             /\ tm_result.name = TemplateNames[FirstWithHighest]
             /\ tm_result.score = HighestScore
        ELSE tm_result = NoTemplate

\* Two templates share the highest score, which is exactly the threshold, and
\* the first one was returned.
C10_Witness ==
    /\ tm_pc = "done"
    /\ Len(templates) = 2
    /\ ScoreAt(1) = min_threshold
    /\ ScoreAt(2) = min_threshold
    /\ tm_result.selected
    /\ tm_result.name = TemplateNames[1]


(***************************************************************************)
(* Properties of the flexible zone locator                                 *)
(***************************************************************************)
\* the words a processed field took: its anchor and the words of its value
TakenBy(entry) == (IF entry.anchor = 0 THEN {} ELSE {entry.anchor}) \cup entry.value_words

\* word w could be the value of the anchored field of entry: it lies in the
\* field's search zone, with confidence above 50, and matches the field's pattern
CouldBeValueOf(entry, w) ==
    /\ entry.anchor # 0
    /\ all_ocr_words[w].confidence > 50
    /\ Intersects(all_ocr_words[w].bbox,
                  SearchZone(entry.field, all_ocr_words[entry.anchor].bbox))
    /\ ValidationRegex(entry.field, Strip(all_ocr_words[w].text))

\* C5: in calculate_flexible_zoi no word is the located value of two different
\* fields, and a word taken as the anchor or the value of one field is neither
\* the anchor nor the value of a field processed later, in phase A or phase B.
C5_WordsConsumedOnce ==
    \A a \in 1..Len(zoi_log) : \A b \in (a + 1)..Len(zoi_log) :
        /\ zoi_log[a].value_words \cap zoi_log[b].value_words = {}
        /\ TakenBy(zoi_log[a]) \cap TakenBy(zoi_log[b]) = {}

\* The value word of one field lies in the search zone of a later anchored field
\* and matches its pattern, and the later field did not take it.
C5_Witness ==
    /\ zoi_pc = "done"
    /\ \E a \in 1..Len(zoi_log) : \E b \in (a + 1)..Len(zoi_log) :
          \E w \in zoi_log[a].value_words :
             /\ CouldBeValueOf(zoi_log[b], w)
             /\ w \notin TakenBy(zoi_log[b])

\* the step processed a field and logged what it took
FieldLogged == Len(zoi_log') = Len(zoi_log) + 1

\* the unused words that can anchor the field: confidence above 70 and a keyword
\* of the field in the text
AnchorCandidates(field_name) ==
    {i \in (1..Len(all_ocr_words)) \ words_used :
        all_ocr_words[i].confidence > 70 /\ HasKeyword(field_name, all_ocr_words[i].text)}

\* C23: the anchor a field of phase A takes is one of the unused words with
\* confidence above 70 that hold a keyword of the field, and none of them has a
\* higher confidence.
C23_AnchorIsHighestConfidence ==
    [][(zoi_pc = "A" /\ FieldLogged) =>
          /\ zoi_log'[Len(zoi_log')].anchor \in AnchorCandidates(FieldOrder[zoi_k])
          /\ \A j \in AnchorCandidates(FieldOrder[zoi_k]) :
                all_ocr_words[j].confidence
                   <= all_ocr_words[zoi_log'[Len(zoi_log')].anchor].confidence]_vars

\* the unused words that fully match the rule of the field
GeneralMatches(field_name) ==
    {i \in (1..Len(all_ocr_words)) \ words_used :
        ValidationRegex(field_name, Strip(all_ocr_words[i].text))}

\* C24: the value a field without keywords takes in phase B is the first unused
\* word, in token order, that fully matches the rule of the field and has a
\* confidence strictly above 60.
C24_GeneralScanAboveSixty ==
    [][(zoi_pc = "B" /\ FieldLogged) =>
          \E i \in GeneralMatches(FieldOrder[zoi_k]) :
             /\ zoi_log'[Len(zoi_log')].value_words = {i}
             /\ all_ocr_words[i].confidence > 60
             /\ \A j \in GeneralMatches(FieldOrder[zoi_k]) :
                   all_ocr_words[j].confidence > 60 => i <= j]_vars

\* the anchors of the fields processed so far
AnchorsTaken == {zoi_log[p].anchor : p \in 1..Len(zoi_log)} \ {0}

\* C29: words_used only grows; the anchor of a field enters it in the step that
\* selects it, with or without a value; the anchors of the earlier fields stay in
\* it, and no field takes a used word as its anchor or as a word of its value.
C29_UsedWordsOnlyGrow ==
    [][/\ words_used \subseteq words_used'
       /\ AnchorsTaken \subseteq words_used
       /\ FieldLogged =>
             /\ zoi_log'[Len(zoi_log')].anchor # 0 =>
                   zoi_log'[Len(zoi_log')].anchor \in words_used' \ words_used
             /\ zoi_log'[Len(zoi_log')].value_words
                   \cap (words_used \cup {zoi_log'[Len(zoi_log')].anchor}) = {}]_vars

\* calculate_flexible_zoi has returned; a field was anchored on a word and found no
\* value, and a later field without keywords, whose rule this word matches with a
\* confidence phase B accepts, was left without a value.
C29_Witness ==
    /\ zoi_pc = "done"
    /\ \E p \in 1..Len(zoi_log) : \E f \in 1..Len(FieldOrder) :
          /\ zoi_log[p].anchor # 0
          /\ zoi_log[p].value_words = {}
          /\ Keywords(FieldOrder[f]) = <<>>
          /\ FieldOrder[f] \notin DOMAIN extracted_fields_zoi
          /\ all_ocr_words[zoi_log[p].anchor].confidence >= 60
          /\ ValidationRegex(FieldOrder[f], Strip(all_ocr_words[zoi_log[p].anchor].text))

(***************************************************************************)
(* find_text_in_roi_flexible as a function of its arguments                *)
(***************************************************************************)
MaxRoiWords == 4

TxSA == <<"S", ".", "A">>

\* words convert_ocr_data_to_word_list can deliver: one that fails the rule of
\* banco_completo, one that matches it, one at the confidence the zone rejects
RoiKinds ==
    {[text |-> TxSA, confidence |-> 90], [text |-> TxBanco, confidence |-> 90],
     [text |-> TxSA, confidence |-> 50]}

RoiTokenLists ==
    UNION {{[i \in 1..n |-> [text |-> kinds[i].text, confidence |-> kinds[i].confidence,
                             bbox |-> BoxAt(layout, i, n)]] :
              kinds \in [1..n -> RoiKinds], layout \in {"line", "staggered"}} :
           n \in 0..MaxRoiWords}

RoiCalls ==
    [words : RoiTokenLists,
     field_name : {"banco_completo", "destino_numero"},
     roi_coords : {[left |-> 0, top |-> 0, width |-> 1000, height |-> 100],
                   [left |-> 90, top |-> 0, width |-> 1000, height |-> 30]},
     words_to_exclude : {{}, {1}}]

InitRoi ==
    /\ PipelineIdle
    /\ EpIdle
    /\ IoIdle
    /\ PaIdle
    /\ StopIdle
    /\ IntegrityIdle
    /\ IdentifyIdle
    /\ DynamicIdle
    /\ ExpandIdle
    /\ roi_call \in RoiCalls
    /\ roi_found = NoFound

\* words_in_roi of the second pass, before the sort
WordsInRoi(words, roi_coords, words_to_exclude) ==
    {i \in (1..Len(words)) \ words_to_exclude :
        Intersects(words[i].bbox, roi_coords) /\ words[i].confidence > 50}

\* the slices [start_idx:end_idx] of the sorted words of the zone that reach
\* re.fullmatch: those of one word, and the longer ones that pass the line test
CombinationsTried(words, sorted) ==
    {c \in (1..Len(sorted)) \X (1..Len(sorted)) :
        /\ c[1] <= c[2]
        /\ c[2] < c[1] + 3
        /\ c[2] > c[1] =>
              ~(\E k1 \in c[1]..c[2] : \E k2 \in c[1]..c[2] :
                   CenterY(words[sorted[k1]]) - CenterY(words[sorted[k2]]) > 30)}

\* "if not best_match_text and allow_multiword"
SecondPass(call) ==
    /\ AllowMultiword(call.field_name)
    /\ \A i \in WordsInRoi(call.words, call.roi_coords, call.words_to_exclude) :
          ~ValidationRegex(call.field_name, Strip(call.words[i].text))

FoundWith(call, found, second_pass) ==
    [done |-> TRUE,
     second_pass |-> second_pass,
     tried |-> IF second_pass
               THEN CombinationsTried(call.words,
                        SortByPosition(call.words,
                            WordsInRoi(call.words, call.roi_coords, call.words_to_exclude)))
               ELSE {},
     matched_word_indices |-> found.matched_word_indices]

\* one call of find_text_in_roi_flexible
FindTextInRoi ==
    /\ ~roi_found.done
    /\ roi_found' = FoundWith(roi_call,
                          find_text_in_roi_flexible(roi_call.words, roi_call.roi_coords,
                                                    roi_call.field_name,
                                                    roi_call.words_to_exclude,
                                                    AllowMultiword(roi_call.field_name)),
                          SecondPass(roi_call))
    /\ UNCHANGED roi_call
    /\ UNCHANGED <<pipelineVars, epVars, ioVars, paVars, stopVars, integrityVars, identifyVars, dynamicVars, expandVars>>

NextRoi == FindTextInRoi

SpecRoi == InitRoi /\ [][NextRoi]_vars

\* the words of the zone of the call, sorted by position
SortedInRoi ==
    SortByPosition(roi_call.words,
                   WordsInRoi(roi_call.words, roi_call.roi_coords, roi_call.words_to_exclude))

\* the words at positions a..b of the sorted zone have vertical centers at most 30
\* apart
RunOnOneLine(sorted, a, b) ==
    \A k1 \in a..b : \A k2 \in a..b :
       CenterY(roi_call.words[sorted[k1]]) - CenterY(roi_call.words[sorted[k2]]) <= 30

RunsTested(sorted) ==
    \A a \in 1..Len(sorted) : \A b \in 1..Len(sorted) :
       (b - a + 1 \in 2..4 /\ RunOnOneLine(sorted, a, b)) => <<a, b>> \in roi_found.tried

\* C25: when the strategy allows multi-word values and no single word of the zone
\* matches, every run of 2, 3 and 4 consecutive unused words of the zone whose
\* vertical centers are at most 30 px apart is tested, and the words of an accepted
\* combination never have vertical centers more than 30 px apart.
C25_RunsOfTwoToFourTested ==
    (roi_found.done /\ roi_found.second_pass) =>
        /\ RunsTested(SortedInRoi)
        /\ \A i \in roi_found.matched_word_indices :
              \A j \in roi_found.matched_word_indices :
                 CenterY(roi_call.words[i]) - CenterY(roi_call.words[j]) <= 30

\* the entries extract_data stored for a directed OCR that returned a text
EnhancedEntries ==
    IF version = "v1"
    THEN {f \in DOMAIN campos_extraidos :
             /\ campos_extraidos[f].has_raw_ocr_output
             /\ Strip(campos_extraidos[f].raw_ocr_output) # <<>>}
    ELSE {}

\* C30: for a non-empty extracted text, apply_contextual_heuristics of DataExtractor
\* returns a non-empty text: the text it was given, or a candidate that occurs in
\* the full text.
C30_HeuristicsKeepExtractedText ==
    \A f \in EnhancedEntries :
       /\ campos_extraidos[f].enhanced_output # <<>>
       /\ \/ campos_extraidos[f].enhanced_output = campos_extraidos[f].raw_ocr_output
          \/ Contains(full_text, campos_extraidos[f].enhanced_output)

\* the same with the empty result allowed
HeuristicsReturnGivenOrCandidateOrNothing ==
    \A f \in EnhancedEntries :
       \/ campos_extraidos[f].enhanced_output = <<>>
       \/ campos_extraidos[f].enhanced_output = campos_extraidos[f].raw_ocr_output
       \/ Contains(full_text, campos_extraidos[f].enhanced_output)

(***************************************************************************)
(* Retrainer runs that end without the archive                             *)
(***************************************************************************)
MaxStops == 1

\* The run ends between save_probabilistic_model and the move of the feedback
\* file: the process is stopped, or shutil.move raises and
\* archive_processed_feedback only logs it.  The feedback file stays as it is.
RetrainStop ==
    /\ rt_pc = "archive"
    /\ rt_stops < MaxStops
    /\ rt_stops' = rt_stops + 1
    /\ rt_pc' = "idle"
    /\ UNCHANGED <<store, feedback_csv, archive, n_feedback, rt_df, rt_i, rt_model, lm,
                   last_lookup, docVars>>
    /\ UNCHANGED <<tmVars, zoiVars, epVars, ioVars, paVars, roiVars, integrityVars, identifyVars, dynamicVars, expandVars>>

NextRetrain ==
    \/ AddFeedback
    \/ RetrainStart
    \/ RetrainRow
    \/ RetrainSave
    \/ RetrainArchive
    \/ RetrainStop
    \/ LMConstruct
    \/ LookupCorrection
    \/ NewDocument

SpecRetrain == InitLM /\ [][NextRetrain]_vars

RECURSIVE Flatten(_)
Flatten(files) == IF files = <<>> THEN <<>> ELSE Head(files) \o Flatten(Tail(files))

\* the feedback entries added so far for the correction of the row, archived or
\* pending
EntriesFor(row) ==
    Cardinality({i \in 1..Len(Flatten(archive) \o feedback_csv.rows) :
                    LET e == (Flatten(archive) \o feedback_csv.rows)[i]
                    IN  e.field = row.field /\ e.raw = row.raw /\ e.corrected = row.corrected})

\* C28: over any sequence of retrainer runs, also with runs that end after the
\* model was persisted and before the feedback file was archived, the count of a
\* correction in the persisted model never exceeds the number of feedback entries
\* added for it.
C28_EntryCountedAtMostOnce ==
    \A row \in FeedbackRows : CountOf(store.model, row) <= EntriesFor(row)

(***************************************************************************)
(* Damaged files: load_templates, load_probabilistic_model and the next    *)
(* save of the retrainer                                                   *)
(***************************************************************************)
\* an entry of the model file whose text is not JSON ("syntax") or is JSON of
\* another shape than an entry ("shape")
Damaged(kind) == [damage |-> kind]

IsDamaged(entry) == "damage" \in DOMAIN entry

\* the entries <<field, raw>> of a model
EntryKeys(model) == {k \in (DOMAIN model) \X {TxAmount, TxAbc} : k[2] \in DOMAIN model[k[1]]}

WithDamage(model, k, kind) == Put(model, k[1], Put(model[k[1]], k[2], Damaged(kind)))

GivenModel ==
    FoldAll(EmptyModel, <<Row("monto", TxAmount, TxAmountFixed, "caracter_mal_reconocido"),
                          Row("banco_origen", TxAbc, TxRef, "campo_no_detectado"),
                          Row("concepto", TxAbc, TxRef, "campo_no_detectado")>>)

\* the model file a process can find: none, an empty model, a retrained model, and
\* the retrained model with one damaged entry
ModelFiles ==
    {NoStore, StoreOf(<<>>), [exists |-> TRUE, model |-> GivenModel]}
    \cup {[exists |-> TRUE, model |-> WithDamage(GivenModel, k, kind)] :
             k \in EntryKeys(GivenModel), kind \in {"syntax", "shape"}}

\* the template directory: up to MaxTemplates files, each well-formed or not
TemplateDirs ==
    UNION {{[i \in 1..n |-> [stem |-> i, parses |-> ok[i]]] : ok \in [1..n -> BOOLEAN]} :
           n \in 0..MaxTemplates}

InitIntegrity ==
    /\ PipelineIdle
    /\ EpIdle
    /\ IoIdle
    /\ PaIdle
    /\ RoiIdle
    /\ StopIdle
    /\ IdentifyIdle
    /\ DynamicIdle
    /\ ExpandIdle
    /\ template_files \in TemplateDirs
    /\ model_file \in ModelFiles
    /\ given_file = model_file
    /\ loaded_templates = {}
    /\ loaded_model = EmptyModel
    /\ di_pc = "new"

\* TemplateManager.load_templates: a file that yaml.safe_load rejects is logged and
\* the loop goes on
LoadTemplates ==
    /\ di_pc = "new"
    /\ loaded_templates' =
          {template_files[i].stem : i \in {j \in 1..Len(template_files) : template_files[j].parses}}
    /\ di_pc' = "templates"
    /\ UNCHANGED <<template_files, model_file, given_file, loaded_model>>
    /\ UNCHANGED <<pipelineVars, epVars, ioVars, paVars, roiVars, stopVars, identifyVars, dynamicVars, expandVars>>

\* json.load raises on the file
JsonFails(file) == \E k \in EntryKeys(file.model) : file.model[k[1]][k[2]] = Damaged("syntax")

\* LearningManager.load_probabilistic_model: a missing file is created empty, a
\* file json.load rejects leaves the empty model
LoadProbabilisticModel ==
    /\ di_pc = "templates"
    /\ loaded_model' = IF model_file.exists /\ ~JsonFails(model_file)
                       THEN model_file.model ELSE EmptyModel
    /\ model_file' = IF model_file.exists THEN model_file ELSE StoreOf(<<>>)
    /\ di_pc' = "model"
    /\ UNCHANGED <<template_files, given_file, loaded_templates>>
    /\ UNCHANGED <<pipelineVars, epVars, ioVars, paVars, roiVars, stopVars, identifyVars, dynamicVars, expandVars>>

\* one row of process_feedback_entries: a row that meets an entry of another shape
\* raises and is logged
FoldOrSkip(model, row) ==
    IF HasOcrEntry(model, row) /\ IsDamaged(model[row.field][row.raw])
    THEN model
    ELSE FoldEntry(model, row)

\* the retrainer on one feedback row: process_feedback_entries, then
\* save_probabilistic_model
RetrainAndSave ==
    /\ di_pc = "model"
    /\ \E row \in FeedbackRows :
          /\ loaded_model' = FoldOrSkip(loaded_model, row)
          /\ model_file' = [exists |-> TRUE, model |-> FoldOrSkip(loaded_model, row)]
    /\ di_pc' = "saved"
    /\ UNCHANGED <<template_files, given_file, loaded_templates>>
    /\ UNCHANGED <<pipelineVars, epVars, ioVars, paVars, roiVars, stopVars, identifyVars, dynamicVars, expandVars>>

NextIntegrity ==
    \/ LoadTemplates
    \/ LoadProbabilisticModel
    \/ RetrainAndSave

SpecIntegrity == InitIntegrity /\ [][NextIntegrity]_vars

\* the entries of the file the processes found that are not damaged
IntactKeys ==
    IF given_file.exists
    THEN {k \in EntryKeys(given_file.model) : ~IsDamaged(given_file.model[k[1]][k[2]])}
    ELSE {}

HasKey(model, k) == k[1] \in DOMAIN model /\ k[2] \in DOMAIN model[k[1]]

\* every well-formed template file is loaded
TemplatesSkippedAlone ==
    di_pc # "new" =>
       \A i \in 1..Len(template_files) :
          template_files[i].parses => template_files[i].stem \in loaded_templates

\* every intact entry of the file is in the loaded model, and in the file after
\* the next save
EntriesSkippedAlone ==
    /\ di_pc \in {"model", "saved"} => \A k \in IntactKeys : HasKey(loaded_model, k)
    /\ di_pc = "saved" => \A k \in IntactKeys : HasKey(model_file.model, k)

\* C21: a malformed template file or a damaged entry of the CorrectionModel is
\* skipped alone: the other templates are loaded, and the other entries are in
\* the loaded model and in the store after the next save.
C21_DamageSkippedAlone == TemplatesSkippedAlone /\ EntriesSkippedAlone

(***************************************************************************)
(* identify_template_or_zoi (template_manager.py) and                      *)
(* identify_template_or_zoi_v2 (template_manager_v2.py)                    *)
(***************************************************************************)
\* what the scorer returns: None, or a template with its 'campos'
ScorerOutcomes ==
    {[selected |-> FALSE, name |-> "", campos |-> {}],
     [selected |-> TRUE, name |-> "t1", campos |-> {"monto", "referencia"}],
     [selected |-> TRUE, name |-> "t2", campos |-> {"fecha"}],
     [selected |-> TRUE, name |-> "t3", campos |-> {}]}

\* the fields the zone locator returns regions for
LocatorOutcomes == {{}, {"monto"}, {"fecha"}, {"monto", "banco_completo"}}

Identifications ==
    [version : {"v1", "v2"}, words : BOOLEAN, located : LocatorOutcomes,
     template : ScorerOutcomes]

InitIdentify ==
    /\ PipelineIdle
    /\ EpIdle
    /\ IoIdle
    /\ PaIdle
    /\ RoiIdle
    /\ StopIdle
    /\ IntegrityIdle
    /\ DynamicIdle
    /\ ExpandIdle
    /\ id_input \in Identifications
    /\ id_pc = "start"
    /\ id_trace = <<>>
    /\ id_result = NoIdentified

Identified(method, fields) == [present |-> TRUE, method |-> method, campos |-> fields]

IdentifyReturns(result) ==
    /\ id_result' = result
    /\ id_pc' = "done"

\* identify_template_or_zoi: identify_best_template, "if template_result:"
TemplateOrZoi ==
    /\ id_input.version = "v1"
    /\ id_pc = "start"
    /\ id_trace' = Append(id_trace, "scorer")
    /\ IF id_input.template.selected
       THEN IdentifyReturns(Identified("template_based", id_input.template.campos))
       ELSE /\ id_pc' = "dynamic"
            /\ UNCHANGED id_result
    /\ UNCHANGED id_input
    /\ UNCHANGED <<pipelineVars, epVars, ioVars, paVars, roiVars, stopVars, integrityVars, dynamicVars, expandVars>>

\* identify_template_or_zoi, else branch: calculate_dynamic_zoi
DynamicZoi ==
    /\ id_input.version = "v1"
    /\ id_pc = "dynamic"
    /\ id_trace' = Append(id_trace, "locator")
    /\ IdentifyReturns(Identified("dynamic_zoi", id_input.located))
    /\ UNCHANGED id_input
    /\ UNCHANGED <<pipelineVars, epVars, ioVars, paVars, roiVars, stopVars, integrityVars, dynamicVars, expandVars>>

\* identify_template_or_zoi_v2: convert_ocr_data_to_word_list, "if not all_ocr_words:"
ConvertWords ==
    /\ id_input.version = "v2"
    /\ id_pc = "start"
    /\ IF id_input.words
       THEN /\ id_pc' = "flexible"
            /\ UNCHANGED id_result
       ELSE IdentifyReturns(Identified("flexible_zoi_v2_no_words", {}))
    /\ UNCHANGED <<id_input, id_trace>>
    /\ UNCHANGED <<pipelineVars, epVars, ioVars, paVars, roiVars, stopVars, integrityVars, dynamicVars, expandVars>>

\* The locator's fields are never enough: the templates are always tried next.
FlexibleThenAlways(located) ==
    /\ id_pc' = "traditional"
    /\ UNCHANGED id_result

\* "if campos_extraidos > 0: return flexible_result", else the fallback
FlexibleThen(located) ==
    IF located # {}
    THEN IdentifyReturns(Identified("flexible_zoi_v2", located))
    ELSE /\ id_pc' = "traditional"
         /\ UNCHANGED id_result

\* identify_template_or_zoi_v2: calculate_flexible_zoi on the words
FlexibleZoi ==
    /\ id_input.version = "v2"
    /\ id_pc = "flexible"
    /\ id_trace' = Append(id_trace, "locator")
    /\ FlexibleThen(id_input.located)
    /\ UNCHANGED id_input
    /\ UNCHANGED <<pipelineVars, epVars, ioVars, paVars, roiVars, stopVars, integrityVars, dynamicVars, expandVars>>

\* identify_template_or_zoi_v2: identify_best_template_traditional as fallback
TraditionalFallback ==
    /\ id_input.version = "v2"
    /\ id_pc = "traditional"
    /\ id_trace' = Append(id_trace, "scorer")
    /\ IF id_input.template.selected
       THEN IdentifyReturns(Identified("template_based_fallback", id_input.template.campos))
       ELSE IdentifyReturns(Identified("all_strategies_failed", {}))
    /\ UNCHANGED id_input
    /\ UNCHANGED <<pipelineVars, epVars, ioVars, paVars, roiVars, stopVars, integrityVars, dynamicVars, expandVars>>

NextIdentify ==
    \/ TemplateOrZoi
    \/ DynamicZoi
    \/ ConvertWords
    \/ FlexibleZoi
    \/ TraditionalFallback

SpecIdentify == InitIdentify /\ [][NextIdentify]_vars

Consulted(who) == \E i \in 1..Len(id_trace) : id_trace[i] = who

\* the result comes from the template-free path
ZoneLocationUsed ==
    id_result.method \in {"dynamic_zoi", "flexible_zoi_v2", "flexible_zoi_v2_no_words"}

\* the scorer was consulted and returned a template
TemplateSelected == Consulted("scorer") /\ id_input.template.selected

TemplateUsed == id_result.method \in {"template_based", "template_based_fallback"}

\* the rules of identify_template_or_zoi
ScorerFirst ==
    /\ id_trace \in {<<>>, <<"scorer">>, <<"scorer", "locator">>}
    /\ id_pc = "done" =>
          /\ ZoneLocationUsed <=> ~TemplateSelected
          /\ TemplateSelected => TemplateUsed /\ id_result.campos = id_input.template.campos

MaxBoxes == 2

\* the fields of field_keywords_map, in the order of the dictionary
DynamicFields ==
    <<"monto", "referencia", "fecha", "cedula_origen", "cedula_destino", "banco_origen",
      "banco_destino">>

field_keywords_map(field_name) ==
    CASE field_name = "monto" ->
           << <<"b", "s">>,
              <<"b", "o", "l", "i", "v", "a", "r", "e", "s">>,
              <<"m", "o", "n", "t", "o">>,
              <<"t", "o", "t", "a", "l">> >>
      [] field_name = "referencia" ->
           << <<"o", "p", "e", "r", "a", "c", "i", "o", "n">>,
              <<"o", "p", "e", "r", "a", "c", "i", "ó", "n">>,
              <<"r", "e", "f">>,
              <<"r", "e", "f", "e", "r", "e", "n", "c", "i", "a">>,
              <<"n", "u", "m", "e", "r", "o">> >>
      [] field_name = "fecha" ->
           << <<"f", "e", "c", "h", "a">> >>
      [] field_name = "cedula_origen" ->
           << <<"o", "r", "i", "g", "e", "n">>,
              <<"i", "d", "e", "n", "t", "i", "f", "i", "c", "a", "c", "i", "o", "n">>,
              <<"i", "d", "e", "n", "t", "i", "f", "i", "c", "a", "c", "i", "ó", "n">> >>
      [] field_name = "cedula_destino" ->
           << <<"d", "e", "s", "t", "i", "n", "o">> >>
      [] field_name = "banco_origen" ->
           << <<"b", "a", "n", "c", "o">> >>
      [] field_name = "banco_destino" ->
           << <<"b", "a", "n", "c", "o">> >>

\* fallback_regions, in hundredths of the image
fallback_regions(field_name) ==
    CASE field_name = "monto" -> [x_rel |-> 30, y_rel |-> 25, w_rel |-> 40, h_rel |-> 10]
      [] field_name = "fecha" -> [x_rel |-> 50, y_rel |-> 40, w_rel |-> 40, h_rel |-> 8]
      [] field_name = "referencia" -> [x_rel |-> 40, y_rel |-> 50, w_rel |-> 50, h_rel |-> 8]
      [] field_name = "cedula_origen" -> [x_rel |-> 40, y_rel |-> 65, w_rel |-> 40, h_rel |-> 8]
      [] field_name = "cedula_destino" -> [x_rel |-> 40, y_rel |-> 75, w_rel |-> 40, h_rel |-> 8]
      [] field_name = "banco_origen" -> [x_rel |-> 20, y_rel |-> 85, w_rel |-> 60, h_rel |-> 8]
      [] field_name = "banco_destino" -> [x_rel |-> 20, y_rel |-> 85, w_rel |-> 60, h_rel |-> 8]

OcrBox(text, conf, left, top) ==
    [text |-> text, conf |-> conf, left |-> left, top |-> top, width |-> 80, height |-> 20]

TxTotal == <<"T", "o", "t", "a", "l">>

\* a keyword of monto, a value next to it, a value far from it, a keyword of the
\* banks near the first, and a keyword below the confidence of 20
BoxKinds ==
    {OcrBox(TxMonto, 90, 0, 0), OcrBox(TxAmount, 80, 100, 0), OcrBox(TxAmount, 90, 210, 70),
     OcrBox(TxBanco, 90, 0, 70), OcrBox(TxTotal, 10, 100, 40)}

ImageDimensions ==
    {[width |-> 1, height |-> 1], [width |-> 3, height |-> 2], [width |-> 13, height |-> 10],
     [width |-> 300, height |-> 100], [width |-> 640, height |-> 480]}

InsideImage(z, image) ==
    /\ z.left >= 0
    /\ z.top >= 0
    /\ z.left + z.width <= image.width
    /\ z.top + z.height <= image.height

\* the OCR of an image: up to MaxBoxes different boxes, all inside the image
OcrOf(image) ==
    UNION {{b \in [1..n -> BoxKinds] :
               /\ \A i \in 1..n : \A j \in 1..n : b[i] = b[j] => i = j
               /\ \A i \in 1..n : InsideImage(b[i], image)} : n \in 0..MaxBoxes}

NoZoi == [method |-> "none", left |-> 0, top |-> 0, width |-> 0, height |-> 0, confidence |-> 0]

Zoi(method, left, top, width, height, confidence) ==
    [method |-> method, left |-> left, top |-> top, width |-> width, height |-> height,
     confidence |-> confidence]

\* find_text_boxes_by_keywords: the boxes with confidence of at least 20 whose
\* text holds one of the keywords
find_text_boxes_by_keywords(ocr_data, keywords) ==
    {i \in 1..Len(ocr_data) :
        /\ ocr_data[i].conf >= 20
        /\ Strip(ocr_data[i].text) # <<>>
        /\ \E k \in 1..Len(keywords) : Contains(Strip(Lower(ocr_data[i].text)), keywords[k])}

\* the square of the distance between the centers of two boxes
Distance2(a, b) ==
    ((a.left + a.width \div 2) - (b.left + b.width \div 2))
        * ((a.left + a.width \div 2) - (b.left + b.width \div 2))
    + ((a.top + a.height \div 2) - (b.top + b.height \div 2))
        * ((a.top + a.height \div 2) - (b.top + b.height \div 2))

\* find_value_boxes_near_keyword: the boxes within the radius
find_value_boxes_near_keyword(ocr_data, keyword_box, search_radius) ==
    {i \in 1..Len(ocr_data) :
        /\ ocr_data[i].conf >= 20
        /\ Strip(ocr_data[i].text) # <<>>
        /\ Distance2(ocr_data[i], keyword_box) <= search_radius * search_radius}

\* create_zoi_from_value_box
ZoiFromEdges(value_box, left, top, img_width, img_height) ==
    IF Min(img_width - left, value_box.width + 10) <= 0
          \/ Min(img_height - top, value_box.height + 10) <= 0
    THEN NoZoi
    ELSE Zoi("value_box_direct", left, top, Min(img_width - left, value_box.width + 10),
             Min(img_height - top, value_box.height + 10), value_box.conf)

create_zoi_from_value_box(value_box, img_width, img_height) ==
    ZoiFromEdges(value_box, Max(0, value_box.left - 5), Max(0, value_box.top - 5),
                 img_width, img_height)

\* the nearest box around the keyword box whose text is not the keyword box's:
\* the first of nearby_values, sorted by distance, that passes the test; 0 if none
NearestValue(ocr_data, kb, nearby) ==
    LET others == {i \in nearby : Lower(ocr_data[i].text) # Lower(ocr_data[kb].text)}
    IN  IF others = {} THEN 0
        ELSE CHOOSE i \in others :
                 \A j \in others :
                    \/ Distance2(ocr_data[i], ocr_data[kb]) < Distance2(ocr_data[j], ocr_data[kb])
                    \/ /\ Distance2(ocr_data[i], ocr_data[kb]) = Distance2(ocr_data[j], ocr_data[kb])
                       /\ i <= j

\* strategy 1 for one field: over the keyword boxes in order, the zone of the
\* nearest value; the best is the one whose value has the highest confidence, the
\* first among equals
BestOf(ocr_data, image, values) ==
    LET good == {kb \in DOMAIN values :
                    /\ values[kb] # 0
                    /\ create_zoi_from_value_box(ocr_data[values[kb]], image.width,
                                                 image.height) # NoZoi
                    /\ ocr_data[values[kb]].conf > 0}
    IN  IF good = {} THEN NoZoi
        ELSE LET kb == CHOOSE k \in good :
                          \A j \in good :
                             \/ ocr_data[values[j]].conf < ocr_data[values[k]].conf
                             \/ /\ ocr_data[values[j]].conf = ocr_data[values[k]].conf
                                /\ k <= j
             IN  create_zoi_from_value_box(ocr_data[values[kb]], image.width, image.height)

KeywordZoi(ocr_data, image, field_name) ==
    BestOf(ocr_data, image,
           [kb \in find_text_boxes_by_keywords(ocr_data, field_keywords_map(field_name)) |->
               NearestValue(ocr_data, kb,
                            find_value_boxes_near_keyword(ocr_data, ocr_data[kb], 150))])

\* calculate_fallback_zoi
FallbackFrom(left, top, width, height, img_width, img_height) ==
    IF Min(width, img_width - left) <= 0 \/ Min(height, img_height - top) <= 0 THEN NoZoi
    ELSE Zoi("fallback_relative_position", left, top, Min(width, img_width - left),
             Min(height, img_height - top), 30)

calculate_fallback_zoi(field_name, img_width, img_height) ==
    FallbackFrom(Max(0, Min((img_width * fallback_regions(field_name).x_rel) \div 100,
                            img_width - 1)),
                 Max(0, Min((img_height * fallback_regions(field_name).y_rel) \div 100,
                            img_height - 1)),
                 (img_width * fallback_regions(field_name).w_rel) \div 100,
                 (img_height * fallback_regions(field_name).h_rel) \div 100,
                 img_width, img_height)

InitDynamic ==
    /\ PipelineIdle
    /\ EpIdle
    /\ IoIdle
    /\ PaIdle
    /\ RoiIdle
    /\ StopIdle
    /\ IntegrityIdle
    /\ IdentifyIdle
    /\ ExpandIdle
    /\ dz_image \in ImageDimensions
    /\ dz_ocr \in OcrOf(dz_image)
    /\ dz_pc = "fields"
    /\ dz_k = 1
    /\ dz_campos = EmptyModel
    /\ dz_log = <<>>

\* The body of the loop with the fallback taken whenever it gives a zone.
FieldZoiFallbackFirst(field_name, best_zoi, fallback_zoi) ==
    /\ dz_campos' = IF fallback_zoi # NoZoi THEN Put(dz_campos, field_name, fallback_zoi)
                    ELSE IF best_zoi # NoZoi THEN Put(dz_campos, field_name, best_zoi)
                    ELSE dz_campos
    /\ dz_log' = Append(dz_log, [field |-> field_name, keyword_zoi |-> best_zoi # NoZoi,
                                  fallback |-> TRUE])

\* the body of the loop for one field: "if best_zoi: ... continue", then the fallback
FieldZoi(field_name, best_zoi, fallback_zoi) ==
    /\ dz_campos' = IF best_zoi # NoZoi THEN Put(dz_campos, field_name, best_zoi)
                    ELSE IF fallback_zoi # NoZoi THEN Put(dz_campos, field_name, fallback_zoi)
                    ELSE dz_campos
    /\ dz_log' = Append(dz_log, [field |-> field_name, keyword_zoi |-> best_zoi # NoZoi,
                                  fallback |-> best_zoi = NoZoi])

\* one iteration of the loop of calculate_dynamic_zoi
DynamicField ==
    /\ dz_pc = "fields"
    /\ dz_k <= Len(DynamicFields)
    /\ FieldZoi(DynamicFields[dz_k], KeywordZoi(dz_ocr, dz_image, DynamicFields[dz_k]),
                calculate_fallback_zoi(DynamicFields[dz_k], dz_image.width, dz_image.height))
    /\ dz_k' = dz_k + 1
    /\ UNCHANGED <<dz_ocr, dz_image, dz_pc>>
    /\ UNCHANGED <<pipelineVars, epVars, ioVars, paVars, roiVars, stopVars, integrityVars,
                   identifyVars, expandVars>>

\* "return dynamic_zoi"
DynamicReturn ==
    /\ dz_pc = "fields"
    /\ dz_k > Len(DynamicFields)
    /\ dz_pc' = "done"
    /\ UNCHANGED <<dz_ocr, dz_image, dz_k, dz_campos, dz_log>>
    /\ UNCHANGED <<pipelineVars, epVars, ioVars, paVars, roiVars, stopVars, integrityVars,
                   identifyVars, expandVars>>

NextDynamic ==
    \/ DynamicField
    \/ DynamicReturn

SpecDynamic == InitDynamic /\ [][NextDynamic]_vars

\* C26: a field holds the relative-position fallback zone only if strategy 1 gave
\* no zone for it, and every fallback zone has confidence 30 and lies inside the
\* image.
C26_FallbackOnlyWithoutZone ==
    \A p \in 1..Len(dz_log) :
       LET f == dz_log[p].field
       IN  (f \in DOMAIN dz_campos /\ dz_campos[f].method = "fallback_relative_position") =>
              /\ ~dz_log[p].keyword_zoi
              /\ dz_campos[f].confidence = 30
              /\ dz_campos[f].width > 0
              /\ dz_campos[f].height > 0
              /\ InsideImage(dz_campos[f], dz_image)

\* calculate_dynamic_zoi has returned with a zone from a value box for one field
\* and the fallback zone for another
C26_Witness ==
    /\ dz_pc = "done"
    /\ \E f \in DOMAIN dz_campos : dz_campos[f].method = "fallback_relative_position"
    /\ \E f \in DOMAIN dz_campos : dz_campos[f].method = "value_box_direct"

(***************************************************************************)
(* FieldExtractor.expand_search_from_center: the windows of growing radius *)
(* around an anchor's center                                               *)
(***************************************************************************)
MaxWindows == 3

\* the settings read by FieldExtractor that config.py defines: none of
\* CENTER_EXPANSION_RADIUS, MAX_EXPANSION_RADIUS, EXPANSION_STEP,
\* HIGH_CONFIDENCE_THRESHOLD, MIN_CONFIDENCE_THRESHOLD and TESSERACT_CONFIG_*
ConfigPy == {}

\* the names expand_search_from_center reads from config
ExpansionNames ==
    {"CENTER_EXPANSION_RADIUS", "MAX_EXPANSION_RADIUS", "EXPANSION_STEP",
     "HIGH_CONFIDENCE_THRESHOLD"}

\* a configuration that carries the fixed start, step, maximum and threshold
\* the expansion is described with; radii are counted in steps
ExpansionSettings ==
    [CENTER_EXPANSION_RADIUS |-> 1, MAX_EXPANSION_RADIUS |-> MaxWindows,
     EXPANSION_STEP |-> 1, HIGH_CONFIDENCE_THRESHOLD |-> 80]

\* list(range(CENTER_EXPANSION_RADIUS, MAX_EXPANSION_RADIUS + 1, EXPANSION_STEP))
Radii ==
    LET start == ExpansionSettings.CENTER_EXPANSION_RADIUS
        stop  == ExpansionSettings.MAX_EXPANSION_RADIUS + 1
        step  == ExpansionSettings.EXPANSION_STEP
        n     == IF stop > start THEN (stop - start + step - 1) \div step ELSE 0
    IN  [i \in 1..n |-> start + (i - 1) * step]

\* the keys of FIELD_DEFINITIONS of field_extractor.py used here
ExpandFields == {"monto", "fecha", "identificacion", "concepto"}

\* the leading characters of FIELD_DEFINITIONS[field_name]["validation_regex"],
\* a single string
validation_regex_chars(field_name) ==
    CASE field_name = "identificacion" -> <<"^", "[">>
      [] field_name = "concepto"       -> <<"^", ".">>
      [] OTHER                         -> <<"^", "\\">>

\* re.findall(pattern, cleaned_text, re.IGNORECASE) for a pattern of one character
Findall(pattern, cleaned_text) ==
    CASE pattern = "^" -> [error |-> FALSE, matches |-> <<TxEmpty>>]
      [] pattern = "." -> [error |-> FALSE,
                           matches |-> [i \in 1..Len(cleaned_text) |-> <<cleaned_text[i]>>]]
      [] OTHER         -> [error |-> TRUE, matches |-> <<>>]

\* re.match(r'\d{2}[/-]\d{2}[/-]\d{2,4}', match)
DatePrefix(match) ==
    /\ Len(match) >= 8
    /\ \A i \in {1, 2, 4, 5, 7, 8} : IsDigit(match[i])
    /\ \A i \in {3, 6} : match[i] \in {"/", "-"}

Validated(outcome, value) == [outcome |-> outcome, value |-> value]

\* the loop "for pattern in patterns" of validate_and_extract_field: patterns
\* is the regex string, so each pattern is one of its characters
RECURSIVE TryPatterns(_, _, _)
TryPatterns(patterns, cleaned_text, field_name) ==
    IF patterns = <<>> THEN Validated("None", TxEmpty)
    ELSE LET found == Findall(Head(patterns), cleaned_text)
             match == found.matches[1]
             rest  == TryPatterns(Tail(patterns), cleaned_text, field_name)
         IN  IF found.error THEN Validated("re.error", TxEmpty)
             ELSE IF found.matches = <<>> THEN rest
             ELSE IF field_name = "monto"
             THEN IF IsFloatLiteral(FieldExtractorAmount(match))
                  THEN Validated("value", FieldExtractorAmount(match))
                  ELSE rest
             ELSE IF field_name = "fecha"
             THEN IF DatePrefix(match) THEN Validated("value", match) ELSE rest
             ELSE Validated("value", Strip(match))

validate_and_extract_field(text, field_name) ==
    IF text = TxEmpty \/ field_name \notin ExpandFields
    THEN Validated("None", TxEmpty)
    ELSE TryPatterns(validation_regex_chars(field_name), Strip(text), field_name)

\* what perform_ocr_on_region can return for one window
WindowOcr ==
    { [text |-> TxEmpty, confidence |-> 0],
      [text |-> TxAmount, confidence |-> 60],
      [text |-> TxAmount, confidence |-> 85],
      [text |-> TxDate, confidence |-> 95] }

\* perform_ocr_on_region: without TESSERACT_CONFIG_* the AttributeError is caught
\* and the window reads as empty
perform_ocr_on_region(call, i) ==
    IF call.config = ConfigPy
    THEN [text |-> TxEmpty, confidence |-> 0]
    ELSE call.windows[i]

ExpandCalls ==
    [config : {ConfigPy, ExpansionNames},
     field_name : ExpandFields,
     windows : [1..Len(Radii) -> WindowOcr]]

InitExpand ==
    /\ PipelineIdle
    /\ EpIdle
    /\ IoIdle
    /\ PaIdle
    /\ RoiIdle
    /\ StopIdle
    /\ IntegrityIdle
    /\ IdentifyIdle
    /\ DynamicIdle
    /\ ex_call \in ExpandCalls
    /\ ex_pc = "radii"
    /\ ex_i = 1
    /\ ex_best = NoWindow
    /\ ex_best_confidence = 0
    /\ ex_visited = <<>>
    /\ ex_result = NoWindow

Raised(exception) == [outcome |-> exception, value |-> <<>>, confidence |-> 0, radius |-> 0]

Window(value, confidence, radius) ==
    [outcome |-> "window", value |-> value, confidence |-> confidence, radius |-> radius]

\* "return best_result"
ReturnedBest(best_result) ==
    IF best_result = NoWindow THEN Raised("None") ELSE best_result

\* the radii are read from config: a missing setting ends the call
ReadRadii ==
    /\ ex_pc = "radii"
    /\ IF ExpansionNames \subseteq ex_call.config
       THEN /\ ex_pc' = "windows"
            /\ ex_result' = ex_result
       ELSE /\ ex_pc' = "done"
            /\ ex_result' = Raised("AttributeError")
    /\ UNCHANGED <<ex_call, ex_i, ex_best, ex_best_confidence, ex_visited>>
    /\ UNCHANGED <<pipelineVars, epVars, ioVars, paVars, roiVars, stopVars,
                   integrityVars, identifyVars, dynamicVars>>

\* one pass of "for radius in radii"
VisitWindow ==
    /\ ex_pc = "windows"
    /\ ex_i <= Len(Radii)
    /\ LET radius     == Radii[ex_i]
           ocr_result == perform_ocr_on_region(ex_call, ex_i)
           extracted  == validate_and_extract_field(ocr_result.text, ex_call.field_name)
           validates  == extracted.outcome = "value" /\ extracted.value # TxEmpty
       IN  /\ ex_visited' = Append(ex_visited, radius)
           /\ IF ocr_result.confidence > ex_best_confidence
              THEN IF extracted.outcome = "re.error"
                   THEN /\ ex_pc' = "done"
                        /\ ex_result' = Raised("re.error")
                        /\ UNCHANGED <<ex_best, ex_best_confidence, ex_i>>
                   ELSE IF validates
                   THEN /\ ex_best' = Window(extracted.value, ocr_result.confidence, radius)
                        /\ ex_best_confidence' = ocr_result.confidence
                        /\ IF ocr_result.confidence >
                                  ExpansionSettings.HIGH_CONFIDENCE_THRESHOLD
                           THEN /\ ex_pc' = "done"
                                /\ ex_result' = ex_best'
                                /\ ex_i' = ex_i
                           ELSE /\ ex_i' = ex_i + 1
                                /\ UNCHANGED <<ex_pc, ex_result>>
                   ELSE /\ ex_i' = ex_i + 1
                        /\ UNCHANGED <<ex_pc, ex_result, ex_best, ex_best_confidence>>
              ELSE /\ ex_i' = ex_i + 1
                   /\ UNCHANGED <<ex_pc, ex_result, ex_best, ex_best_confidence>>
    /\ UNCHANGED ex_call
    /\ UNCHANGED <<pipelineVars, epVars, ioVars, paVars, roiVars, stopVars,
                   integrityVars, identifyVars, dynamicVars>>

\* the radii are used up
ExpandReturn ==
    /\ ex_pc = "windows"
    /\ ex_i > Len(Radii)
    /\ ex_pc' = "done"
    /\ ex_result' = ReturnedBest(ex_best)
    /\ UNCHANGED <<ex_call, ex_i, ex_best, ex_best_confidence, ex_visited>>
    /\ UNCHANGED <<pipelineVars, epVars, ioVars, paVars, roiVars, stopVars,
                   integrityVars, identifyVars, dynamicVars>>

NextExpand ==
    \/ ReadRadii
    \/ VisitWindow
    \/ ExpandReturn

SpecExpand == InitExpand /\ [][NextExpand]_vars

\* the windows above the high-confidence threshold, by index in Radii
ConfidentWindows ==
    { i \in 1..Len(Radii) :
        ex_call.windows[i].confidence > ExpansionSettings.HIGH_CONFIDENCE_THRESHOLD }

FirstConfident == CHOOSE i \in ConfidentWindows : \A j \in ConfidentWindows : i <= j

\* the highest OCR confidence among all windows
HighestConfidence ==
    CHOOSE c \in { ex_call.windows[i].confidence : i \in 1..Len(Radii) } :
        \A i \in 1..Len(Radii) : ex_call.windows[i].confidence <= c

\* C27: a finished expansion has read the windows in order of growing radius,
\* from the start radius on; with a window above the high-confidence threshold
\* it stopped at the first such window and returned it; without one it read
\* every radius and returned a window of the highest confidence seen (nothing
\* when no window held any text).
C27_FirstConfidentElseBest ==
    ex_pc = "done" =>
        IF ConfidentWindows # {}
        THEN /\ ex_visited = SubSeq(Radii, 1, FirstConfident)
             /\ ex_result.outcome = "window"
             /\ ex_result.radius = Radii[FirstConfident]
        ELSE /\ ex_visited = Radii
             /\ IF HighestConfidence = 0
                THEN ex_result.outcome = "None"
                ELSE /\ ex_result.outcome = "window"
                     /\ ex_result.confidence = HighestConfidence

\* the windows read are always a prefix of the radii, in increasing order
WindowsInRadiusOrder ==
    /\ Len(ex_visited) <= Len(Radii)
    /\ ex_visited = SubSeq(Radii, 1, Len(ex_visited))

\* no expansion ever returns a window: the call raises or returns None
ExpansionReturnsNoWindow ==
    ex_pc = "done" => ex_result.outcome \in {"AttributeError", "re.error", "None"}

====
